---- MODULE Spec2Model ----
(***************************************************************************)
(* Lid-driven cavity solver (DrivenCavity.template-to-students.UPDATED.cpp) *)
(* as a state machine: the Array3/Array2 stores, the boundary-condition     *)
(* providers, the time-step controller, the artificial-dissipation          *)
(* operator, the two relaxation schemes, the pressure anchor, the           *)
(* convergence monitor and the driver loop of main().                       *)
(*                                                                          *)
(* Numbers.  A C++ double is modelled as a record: a finite value is a      *)
(* fixed-point integer counted in units of 1/ONE and rounded to nearest     *)
(* after every multiplication, division and square root (as IEEE rounds    *)
(* every operation); a magnitude above Huge overflows to an infinity; NaN   *)
(* and the infinities follow the IEEE rules for +, -, *, /, sqrt, < and     *)
(* for std::max / std::min.  The grid is (2*HalfI+1) x (2*HalfJ+1) and the  *)
(* cavity is scaled so that dx = dy = 1.                                    *)
(***************************************************************************)
EXTENDS Integers, Sequences, FiniteSets, TLC

(***************************************************************************)
(* Bounds of the model.                                                     *)
(***************************************************************************)
HalfI == 3
HalfJ == 3
nmax == 3
iterout == 2
residualOut == 2

(***************************************************************************)
(* double                                                                   *)
(***************************************************************************)
ONE == 10 * 10 * 10
Huge == ONE * ONE

NaN == [c |-> "nan", v |-> 0]
PInf == [c |-> "inf", v |-> 1]
NInf == [c |-> "inf", v |-> -1]

Fin(n) ==
    IF n > Huge THEN PInf
    ELSE IF n < -Huge THEN NInf
    ELSE [c |-> "fin", v |-> n]

IsNaN(a) == a.c = "nan"
IsFinite(a) == a.c = "fin"

SignOf(n) == IF n < 0 THEN -1 ELSE 1
AbsInt(n) == IF n < 0 THEN -n ELSE n

\* n / d rounded to the nearest integer, d > 0
RDiv(n, d) ==
    LET q == AbsInt(n) \div d
        r == AbsInt(n) % d
        m == IF 2 * r >= d THEN q + 1 ELSE q
    IN  SignOf(n) * m

RECURSIVE ISqrtBetween(_, _, _)
ISqrtBetween(n, lo, hi) ==
    IF lo >= hi THEN lo
    ELSE LET mid == (lo + hi + 1) \div 2
         IN  IF mid * mid <= n THEN ISqrtBetween(n, mid, hi)
             ELSE ISqrtBetween(n, lo, mid - 1)

\* floor of the square root of n >= 0
ISqrt(n) == ISqrtBetween(n, 0, 32 * ONE)

\* an int converted to double, and a decimal literal n/d
FI(k) == Fin(k * ONE)
Dec(n, d) == Fin(RDiv(n * ONE, d))

FNeg(a) == IF a.c = "nan" THEN NaN ELSE [c |-> a.c, v |-> -a.v]

FAbs(a) == IF a.c = "nan" THEN NaN ELSE [c |-> a.c, v |-> AbsInt(a.v)]

FAdd(a, b) ==
    IF a.c = "nan" \/ b.c = "nan" THEN NaN
    ELSE IF a.c = "inf" /\ b.c = "inf" THEN (IF a.v = b.v THEN a ELSE NaN)
    ELSE IF a.c = "inf" THEN a
    ELSE IF b.c = "inf" THEN b
    ELSE Fin(a.v + b.v)

FSub(a, b) == FAdd(a, FNeg(b))

FMul(a, b) ==
    IF a.c = "nan" \/ b.c = "nan" THEN NaN
    ELSE IF a.c = "inf" \/ b.c = "inf"
         THEN (IF a.v = 0 \/ b.v = 0 THEN NaN
               ELSE IF SignOf(a.v) = SignOf(b.v) THEN PInf ELSE NInf)
    ELSE LET x == AbsInt(a.v)
             y == AbsInt(b.v)
             \* x*y/ONE, the product taken in two parts
             m == (x \div ONE) * y + RDiv((x % ONE) * y, ONE)
         IN  Fin(SignOf(a.v) * SignOf(b.v) * m)

FDiv(a, b) ==
    IF a.c = "nan" \/ b.c = "nan" THEN NaN
    ELSE IF a.c = "inf"
         THEN (IF b.c = "inf" THEN NaN
               ELSE IF SignOf(a.v) = SignOf(b.v) THEN PInf ELSE NInf)
    ELSE IF b.c = "inf" THEN Fin(0)
    ELSE IF b.v = 0
         THEN (IF a.v = 0 THEN NaN ELSE IF a.v > 0 THEN PInf ELSE NInf)
    ELSE LET x == AbsInt(a.v)
             y == AbsInt(b.v)
             sg == SignOf(a.v) * SignOf(b.v)
         IN  IF x \div y > Huge \div ONE
             THEN (IF sg > 0 THEN PInf ELSE NInf)
             \* x*ONE/y, the quotient taken in two parts
             ELSE Fin(sg * ((x \div y) * ONE + RDiv((x % y) * ONE, y)))

FSqrt(a) ==
    IF a.c = "nan" THEN NaN
    ELSE IF a.v < 0 THEN NaN
    ELSE IF a.c = "inf" THEN PInf
    ELSE LET n == a.v * ONE
             r == ISqrt(n)
         IN  Fin(IF n - r * r > r THEN r + 1 ELSE r)

\* position of a non-NaN double on the extended real line
Ord(a) == IF a.c = "inf" THEN a.v * (Huge + 1) ELSE a.v

\* a < b of C++: false as soon as one side is NaN
FLt(a, b) == a.c # "nan" /\ b.c # "nan" /\ Ord(a) < Ord(b)

\* std::max(a, b) is (a < b) ? b : a, std::min(a, b) is (b < a) ? b : a
StdMax(a, b) == IF FLt(a, b) THEN b ELSE a
StdMin(a, b) == IF FLt(b, a) THEN b ELSE a

(***************************************************************************)
(* State.  cfg holds the user inputs of lines 43-67 that the runs vary.     *)
(* heap maps the address of each Array3 buffer to its contents; u_data and  *)
(* uold_data are the data pointers of the Array3 objects u and uold.        *)
(***************************************************************************)
VARIABLES cfg, pc, heap, u_data, uold_data, src, viscx, viscy, dt,
          n, ninit, rtime, dtmin, res, resinit, conv,
          rawres, rawinit, cavReads, steps, executed, convlog, history,
          outputs, restartOut, filesOpen, last, pre

vars == <<cfg, pc, heap, u_data, uold_data, src, viscx, viscy, dt,
          n, ninit, rtime, dtmin, res, resinit, conv,
          rawres, rawinit, cavReads, steps, executed, convlog, history,
          outputs, restartOut, filesOpen, last, pre>>

(***************************************************************************)
(* Fixed parameters and user inputs (lines 14-67).                          *)
(***************************************************************************)
imax == 2 * HalfI + 1
jmax == 2 * HalfJ + 1
neq == 3

imms == cfg.imms
isgs == cfg.isgs
irstr == cfg.irstr
toler == cfg.toler

cfl == Dec(9, 10)
Cx == Dec(1, 100)
Cy == Dec(1, 100)
rkappa == Dec(1, 10)
Re == FI(100)
pinf == Dec(801, 1000)
uinf == FI(1)
rho == FI(1)
xmin == FI(0)
xmax == FI(imax - 1)
ymin == FI(0)
ymax == FI(jmax - 1)

(***************************************************************************)
(* set_derived_inputs                                                       *)
(***************************************************************************)
rhoinv == FDiv(FI(1), rho)
rlength == FSub(xmax, xmin)
rmu == FDiv(FMul(FMul(rho, uinf), rlength), Re)
vel2ref == FMul(uinf, uinf)
dx == FDiv(FSub(xmax, xmin), FI(imax - 1))
dy == FDiv(FSub(ymax, ymin), FI(jmax - 1))
rpi == Dec(314159, 100000)

(***************************************************************************)
(* Array3 and Array2: a buffer is a function on its flat index range.       *)
(***************************************************************************)
N3 == imax * jmax * neq
N2 == imax * jmax

\* Array3::operator(): data[i*jdim*kdim + j*kdim + k]
Idx3(i, j, k) == i * jmax * neq + j * neq + k
\* Array2::operator(): data[i*jdim + j]
Idx2(i, j) == i * jmax + j

CellI3(x) == x \div (jmax * neq)
CellJ3(x) == (x \div neq) % jmax
CellK3(x) == x % neq
CellI2(x) == x \div jmax
CellJ2(x) == x % jmax

At(a, i, j, k) == a[Idx3(i, j, k)]
At2(a, i, j) == a[Idx2(i, j)]

Interior(i, j) == i >= 1 /\ i <= imax - 2 /\ j >= 1 /\ j <= jmax - 2

\* The contents of a buffer.  Both operators leave the value alone: they make
\* TLC compute every element once, when the buffer is written, instead of at
\* each later read.
IsStored(f) == f = f
Stored(f) == IF IsStored(f) THEN f ELSE f

\* Array3::copyData: memcpy of the whole buffer; Array3::swapData: the two
\* data pointers are exchanged
\* a variant of the copy that copies nothing
copyData_none(h, dst, from) == h
copyData(h, dst, from) == [h EXCEPT ![dst] = h[from]]
\* a variant of the exchange without the temporary
swapData_noTemp(p, q) == <<q, q>>
swapData(p, q) == <<q, p>>

(***************************************************************************)
(* Exact (manufactured) solution.  sin and cos are evaluated by their       *)
(* Taylor polynomials; the arguments stay in [0, pi/2].                     *)
(***************************************************************************)
phi0 == <<Dec(25, 100), Dec(3, 10), Dec(2, 10)>>
phix == <<Dec(5, 10), Dec(15, 100), Dec(1, 6)>>
phiy == <<Dec(4, 10), Dec(2, 10), Dec(25, 100)>>
phixy == <<Dec(1, 3), Dec(25, 100), Dec(1, 10)>>
apx == <<Dec(5, 10), Dec(1, 3), Dec(7, 17)>>
apy == <<Dec(2, 10), Dec(25, 100), Dec(1, 6)>>
apxy == <<Dec(2, 7), Dec(4, 10), Dec(1, 3)>>
fsinx == <<FI(0), FI(1), FI(0)>>
fsiny == <<FI(1), FI(0), FI(0)>>
fsinxy == <<FI(1), FI(1), FI(0)>>

FSin(a) ==
    LET a2 == FMul(a, a)
        a3 == FMul(a2, a)
        a5 == FMul(a3, a2)
    IN  FAdd(FSub(a, FDiv(a3, FI(6))), FDiv(a5, FI(120)))

FCos(a) ==
    LET a2 == FMul(a, a)
        a4 == FMul(a2, a2)
        a6 == FMul(a4, a2)
    IN  FSub(FAdd(FSub(FI(1), FDiv(a2, FI(2))), FDiv(a4, FI(24))),
             FDiv(a6, FI(720)))

umms(x, y, k) ==
    LET argx == FDiv(FMul(FMul(apx[k + 1], rpi), x), rlength)
        argy == FDiv(FMul(FMul(apy[k + 1], rpi), y), rlength)
        argxy == FDiv(FDiv(FMul(FMul(FMul(apxy[k + 1], rpi), x), y), rlength),
                      rlength)
        termx == FMul(phix[k + 1],
                      FAdd(FMul(fsinx[k + 1], FSin(argx)),
                           FMul(FSub(FI(1), fsinx[k + 1]), FCos(argx))))
        termy == FMul(phiy[k + 1],
                      FAdd(FMul(fsiny[k + 1], FSin(argy)),
                           FMul(FSub(FI(1), fsiny[k + 1]), FCos(argy))))
        termxy == FMul(phixy[k + 1],
                       FAdd(FMul(fsinxy[k + 1], FSin(argxy)),
                            FMul(FSub(FI(1), fsinxy[k + 1]), FCos(argxy))))
    IN  FAdd(FAdd(FAdd(phi0[k + 1], termx), termy), termxy)

\* x = (xmax - xmin)*(double)(i)/(double)(imax - 1), and y likewise
XAt(i) == FDiv(FMul(FSub(xmax, xmin), FI(i)), FI(imax - 1))
YAt(j) == FDiv(FMul(FSub(ymax, ymin), FI(j)), FI(jmax - 1))

(***************************************************************************)
(* MMS source terms (the sequences above are indexed from 1: phix[k + 1]    *)
(* is the C++ phix[k]).                                                     *)
(***************************************************************************)
\* c*rpi*x/rlength and c*rpi*x*y/rlength/rlength
ArgOne(c, x) == FDiv(FMul(FMul(c, rpi), x), rlength)
ArgXY(c, x, y) == FDiv(FDiv(FMul(FMul(FMul(c, rpi), x), y), rlength), rlength)
\* p*a*rpi/rlength and p*a*rpi*z/rlength/rlength
CoefOne(p, a) == FDiv(FMul(FMul(p, a), rpi), rlength)
CoefXY(p, a, z) == FDiv(FDiv(FMul(FMul(FMul(p, a), rpi), z), rlength), rlength)
\* pow(a*rpi/rlength, 2) and pow(a*rpi*z/rlength/rlength, 2)
PowOne(a) == LET b == FDiv(FMul(a, rpi), rlength) IN FMul(b, b)
PowXY(a, z) ==
    LET b == FDiv(FDiv(FMul(FMul(a, rpi), z), rlength), rlength) IN FMul(b, b)

srcmms_mass(x, y) ==
    LET dudx == FAdd(FMul(CoefOne(phix[2], apx[2]), FCos(ArgOne(apx[2], x))),
                     FMul(CoefXY(phixy[2], apxy[2], y),
                          FCos(ArgXY(apxy[2], x, y))))
        dvdy == FSub(FMul(CoefOne(FNeg(phiy[3]), apy[3]),
                          FSin(ArgOne(apy[3], y))),
                     FMul(CoefXY(phixy[3], apxy[3], x),
                          FSin(ArgXY(apxy[3], x, y))))
    IN  FAdd(FMul(rho, dudx), FMul(rho, dvdy))

MmsUvel(x, y) ==
    FAdd(FAdd(FAdd(phi0[2], FMul(phix[2], FSin(ArgOne(apx[2], x)))),
              FMul(phiy[2], FCos(ArgOne(apy[2], y)))),
         FMul(phixy[2], FSin(ArgXY(apxy[2], x, y))))

MmsVvel(x, y) ==
    FAdd(FAdd(FAdd(phi0[3], FMul(phix[3], FCos(ArgOne(apx[3], x)))),
              FMul(phiy[3], FCos(ArgOne(apy[3], y)))),
         FMul(phixy[3], FCos(ArgXY(apxy[3], x, y))))

srcmms_xmtm(x, y) ==
    LET dudx == FAdd(FMul(CoefOne(phix[2], apx[2]), FCos(ArgOne(apx[2], x))),
                     FMul(CoefXY(phixy[2], apxy[2], y),
                          FCos(ArgXY(apxy[2], x, y))))
        dudy == FAdd(FMul(CoefOne(FNeg(phiy[2]), apy[2]),
                          FSin(ArgOne(apy[2], y))),
                     FMul(CoefXY(phixy[2], apxy[2], x),
                          FCos(ArgXY(apxy[2], x, y))))
        dpdx == FAdd(FMul(CoefOne(FNeg(phix[1]), apx[1]),
                          FSin(ArgOne(apx[1], x))),
                     FMul(CoefXY(phixy[1], apxy[1], y),
                          FCos(ArgXY(apxy[1], x, y))))
        d2udx2 == FSub(FMul(FMul(FNeg(phix[2]), PowOne(apx[2])),
                            FSin(ArgOne(apx[2], x))),
                       FMul(FMul(phixy[2], PowXY(apxy[2], y)),
                            FSin(ArgXY(apxy[2], x, y))))
        d2udy2 == FSub(FMul(FMul(FNeg(phiy[2]), PowOne(apy[2])),
                            FCos(ArgOne(apy[2], y))),
                       FMul(FMul(phixy[2], PowXY(apxy[2], x)),
                            FSin(ArgXY(apxy[2], x, y))))
    IN  FSub(FAdd(FAdd(FMul(FMul(rho, MmsUvel(x, y)), dudx),
                       FMul(FMul(rho, MmsVvel(x, y)), dudy)),
                  dpdx),
             FMul(rmu, FAdd(d2udx2, d2udy2)))

srcmms_ymtm(x, y) ==
    LET dvdx == FSub(FMul(CoefOne(FNeg(phix[3]), apx[3]),
                          FSin(ArgOne(apx[3], x))),
                     FMul(CoefXY(phixy[3], apxy[3], y),
                          FSin(ArgXY(apxy[3], x, y))))
        dvdy == FSub(FMul(CoefOne(FNeg(phiy[3]), apy[3]),
                          FSin(ArgOne(apy[3], y))),
                     FMul(CoefXY(phixy[3], apxy[3], x),
                          FSin(ArgXY(apxy[3], x, y))))
        dpdy == FAdd(FMul(CoefOne(phiy[1], apy[1]), FCos(ArgOne(apy[1], y))),
                     FMul(CoefXY(phixy[1], apxy[1], x),
                          FCos(ArgXY(apxy[1], x, y))))
        d2vdx2 == FSub(FMul(FMul(FNeg(phix[3]), PowOne(apx[3])),
                            FCos(ArgOne(apx[3], x))),
                       FMul(FMul(phixy[3], PowXY(apxy[3], y)),
                            FCos(ArgXY(apxy[3], x, y))))
        d2vdy2 == FSub(FMul(FMul(FNeg(phiy[3]), PowOne(apy[3])),
                            FCos(ArgOne(apy[3], y))),
                       FMul(FMul(phixy[3], PowXY(apxy[3], x)),
                            FCos(ArgXY(apxy[3], x, y))))
    IN  FSub(FAdd(FAdd(FMul(FMul(rho, MmsUvel(x, y)), dvdx),
                       FMul(FMul(rho, MmsVvel(x, y)), dvdy)),
                  dpdy),
             FMul(rmu, FAdd(d2vdx2, d2vdy2)))

\* writes the interior cells of s only
compute_source_terms(s) ==
    Stored([x \in 0..(N3 - 1) |->
        LET i == CellI3(x)
            j == CellJ3(x)
            k == CellK3(x)
        IN  IF Interior(i, j)
            THEN FMul(FI(imms),
                      CASE k = 0 -> srcmms_mass(XAt(i), YAt(j))
                        [] k = 1 -> srcmms_xmtm(XAt(i), YAt(j))
                        [] OTHER -> srcmms_ymtm(XAt(i), YAt(j)))
            ELSE s[x]])

(***************************************************************************)
(* initial, irstr == 0: the fluid at rest under the moving lid, zero source *)
(***************************************************************************)
initial_u ==
    Stored([x \in 0..(N3 - 1) |->
        CASE CellK3(x) = 0 -> pinf
          [] CellK3(x) = 1 -> IF CellJ3(x) = jmax - 1 THEN uinf ELSE FI(0)
          [] OTHER -> FI(0)])

initial_s == Stored([x \in 0..(N3 - 1) |-> FI(0)])

(***************************************************************************)
(* bndry: the side-wall loop (j = 1 .. jmax-2), then the bottom/top loop    *)
(* (i = 0 .. imax-1), which reads the wall cells the first loop wrote.      *)
(***************************************************************************)
bndry_sides(u) ==
    Stored([x \in 0..(N3 - 1) |->
        LET i == CellI3(x)
            j == CellJ3(x)
            k == CellK3(x)
        IN  IF j >= 1 /\ j <= jmax - 2 /\ i = 0
            THEN (IF k = 0
                  THEN FSub(FMul(FI(2), At(u, 1, j, 0)), At(u, 2, j, 0))
                  ELSE FI(0))
            ELSE IF j >= 1 /\ j <= jmax - 2 /\ i = imax - 1
            THEN (IF k = 0
                  THEN FSub(FMul(FI(2), At(u, imax - 2, j, 0)),
                            At(u, imax - 3, j, 0))
                  ELSE FI(0))
            ELSE u[x]])

\* a variant of the bottom/top loop that runs over i = 1 .. imax-2 only, so
\* that the corner cells keep what they held
bndry_topbottom_inner(u) ==
    Stored([x \in 0..(N3 - 1) |->
        LET i == CellI3(x)
            j == CellJ3(x)
            k == CellK3(x)
        IN  IF j = jmax - 1 /\ i >= 1 /\ i <= imax - 2
            THEN (CASE k = 0 -> FSub(FMul(FI(2), At(u, i, jmax - 2, 0)),
                                     At(u, i, jmax - 3, 0))
                    [] k = 1 -> uinf
                    [] OTHER -> FI(0))
            ELSE IF j = 0 /\ i >= 1 /\ i <= imax - 2
            THEN (IF k = 0
                  THEN FSub(FMul(FI(2), At(u, i, 1, 0)), At(u, i, 2, 0))
                  ELSE FI(0))
            ELSE u[x]])

bndry_topbottom(u) ==
    Stored([x \in 0..(N3 - 1) |->
        LET i == CellI3(x)
            j == CellJ3(x)
            k == CellK3(x)
        IN  IF j = jmax - 1
            THEN (CASE k = 0 -> FSub(FMul(FI(2), At(u, i, jmax - 2, 0)),
                                     At(u, i, jmax - 3, 0))
                    [] k = 1 -> uinf
                    [] OTHER -> FI(0))
            ELSE IF j = 0
            THEN (IF k = 0
                  THEN FSub(FMul(FI(2), At(u, i, 1, 0)), At(u, i, 2, 0))
                  ELSE FI(0))
            ELSE u[x]])

bndry(u) == bndry_topbottom(bndry_sides(u))

(***************************************************************************)
(* bndrymms: each border cell gets umms, then its pressure is overwritten   *)
(* by the 2nd-order extrapolation.                                          *)
(***************************************************************************)
bndrymms_sides(u) ==
    Stored([x \in 0..(N3 - 1) |->
        LET i == CellI3(x)
            j == CellJ3(x)
            k == CellK3(x)
        IN  IF j >= 1 /\ j <= jmax - 2 /\ i = 0
            THEN (IF k = 0
                  THEN FSub(FMul(FI(2), At(u, 1, j, 0)), At(u, 2, j, 0))
                  ELSE umms(xmin, YAt(j), k))
            ELSE IF j >= 1 /\ j <= jmax - 2 /\ i = imax - 1
            THEN (IF k = 0
                  THEN FSub(FMul(FI(2), At(u, imax - 2, j, 0)),
                            At(u, imax - 3, j, 0))
                  ELSE umms(xmax, YAt(j), k))
            ELSE u[x]])

\* a variant of the second loop that leaves out the corner columns
bndrymms_topbottom_inner(u) ==
    Stored([x \in 0..(N3 - 1) |->
        LET i == CellI3(x)
            j == CellJ3(x)
            k == CellK3(x)
        IN  IF j = jmax - 1 /\ i >= 1 /\ i <= imax - 2
            THEN (IF k = 0
                  THEN FSub(FMul(FI(2), At(u, i, jmax - 2, 0)),
                            At(u, i, jmax - 3, 0))
                  ELSE umms(XAt(i), ymax, k))
            ELSE IF j = 0 /\ i >= 1 /\ i <= imax - 2
            THEN (IF k = 0
                  THEN FSub(FMul(FI(2), At(u, i, 1, 0)), At(u, i, 2, 0))
                  ELSE umms(XAt(i), ymin, k))
            ELSE u[x]])

bndrymms_topbottom(u) ==
    Stored([x \in 0..(N3 - 1) |->
        LET i == CellI3(x)
            j == CellJ3(x)
            k == CellK3(x)
        IN  IF j = jmax - 1
            THEN (IF k = 0
                  THEN FSub(FMul(FI(2), At(u, i, jmax - 2, 0)),
                            At(u, i, jmax - 3, 0))
                  ELSE umms(XAt(i), ymax, k))
            ELSE IF j = 0
            THEN (IF k = 0
                  THEN FSub(FMul(FI(2), At(u, i, 1, 0)), At(u, i, 2, 0))
                  ELSE umms(XAt(i), ymin, k))
            ELSE u[x]])

bndrymms(u) == bndrymms_topbottom(bndrymms_sides(u))

\* the boundaryConditionPointer main selects
set_boundary_conditions(u) == IF imms = 0 THEN bndry(u) ELSE bndrymms(u)

(***************************************************************************)
(* pressure_rescaling                                                       *)
(***************************************************************************)
iref == (imax - 1) \div 2
jref == (jmax - 1) \div 2

RefPressure == IF imms = 1 THEN umms(XAt(iref), YAt(jref), 0) ELSE pinf

\* a variant of deltap that takes pinf as the reference in both modes
deltap_pinf(u) == FSub(At(u, iref, jref, 0), pinf)

deltap(u) == FSub(At(u, iref, jref, 0), RefPressure)

\* a variant that shifts the pressure of the interior cells only
pressure_rescaling_interior(u) ==
    LET d == deltap(u)
    IN  Stored([x \in 0..(N3 - 1) |->
                   IF CellK3(x) = 0 /\ Interior(CellI3(x), CellJ3(x))
                   THEN FSub(u[x], d)
                   ELSE u[x]])

pressure_rescaling(u) ==
    LET d == deltap(u)
    IN  Stored([x \in 0..(N3 - 1) |->
                   IF CellK3(x) = 0 THEN FSub(u[x], d) ELSE u[x]])

(***************************************************************************)
(* compute_time_step                                                        *)
(***************************************************************************)
\* uvel2 = u(i,j,1)*u(i,j,1) + u(i,j,2)*u(i,j,2)
TimeStepUvel2(u, i, j) ==
    FAdd(FMul(At(u, i, j, 1), At(u, i, j, 1)),
         FMul(At(u, i, j, 2), At(u, i, j, 2)))

\* a variant of beta2 without the floor rkappa*vel2ref
TimeStepBeta2_noFloor(u, i, j) == TimeStepUvel2(u, i, j)

\* beta2 = max(uvel2, rkappa*vel2ref)
TimeStepBeta2(u, i, j) ==
    StdMax(TimeStepUvel2(u, i, j), FMul(rkappa, vel2ref))

\* lambda_max = max(lambda_x, lambda_y)
TimeStepLambdaMax(u, i, j) ==
    LET u1 == At(u, i, j, 1)
        u2 == At(u, i, j, 2)
        beta2 == TimeStepBeta2(u, i, j)
        lambda_x == FMul(FDiv(FI(1), FI(2)),
                         FAdd(FAbs(u1),
                              FSqrt(FAdd(FMul(u1, u1), FMul(FI(4), beta2)))))
        lambda_y == FMul(FDiv(FI(1), FI(2)),
                         FAdd(FAbs(u2),
                              FSqrt(FAdd(FMul(u2, u2), FMul(FI(4), beta2)))))
    IN  StdMax(lambda_x, lambda_y)

LocalDt(u, i, j) ==
    LET nu == FDiv(rmu, rho)
        dtvisc == FDiv(FMul(dx, dy), FMul(FI(4), nu))
        lambda_max == TimeStepLambdaMax(u, i, j)
        dtconv == FDiv(StdMin(dx, dy), FAbs(lambda_max))
    IN  FMul(cfl, StdMin(dtvisc, dtconv))

\* dt after the loop over the interior cells
compute_time_step_interior(u, dtt) ==
    Stored([x \in 0..(N2 - 1) |->
               IF Interior(CellI2(x), CellJ2(x))
               THEN LocalDt(u, CellI2(x), CellJ2(x))
               ELSE dtt[x]])

\* dtmin = min(dtmin, dt(i,j)) in the order of the two loops: the j loop of
\* column i from j on, and the i loop from i on; d holds the dt(i,j) of the
\* interior cells
RECURSIVE DtMinJ(_, _, _, _)
DtMinJ(d, i, j, acc) ==
    IF IsStored(acc) /\ j > jmax - 2 THEN acc
    ELSE DtMinJ(d, i, j + 1, StdMin(acc, At2(d, i, j)))

RECURSIVE DtMinI(_, _, _)
DtMinI(d, i, acc) ==
    IF IsStored(acc) /\ i > imax - 2 THEN acc
    ELSE DtMinI(d, i + 1, DtMinJ(d, i, 1, acc))

\* a variant that leaves dtmin as it was
compute_time_step_dtmin_kept(d, dtmin0) == dtmin0

compute_time_step_dtmin(d, dtmin0) == DtMinI(d, 1, dtmin0)

\* dt on return: the boundary cells hold dtmin
compute_time_step_walls(d, dtmin0) ==
    LET m == compute_time_step_dtmin(d, dtmin0)
    IN  Stored([x \in 0..(N2 - 1) |->
                   IF Interior(CellI2(x), CellJ2(x)) THEN d[x] ELSE m])

compute_time_step_dt(u, dtt, dtmin0) ==
    compute_time_step_walls(compute_time_step_interior(u, dtt), dtmin0)

(***************************************************************************)
(* Compute_Artificial_Viscosity.  uvel2 is declared and never assigned:     *)
(* its value g is whatever the stack holds.  A pressure read whose flat     *)
(* index lies past the end of the buffer yields oob.  (1/2) is an int       *)
(* division.  After the interior loop beta2, lambda_x and lambda_y keep the *)
(* values of its last cell (imax-4, jmax-4) for the corners and the edges.  *)
(***************************************************************************)
OffCentralDown == <<2, 1, 0, -1, -2>>
OffCentralUp == <<-2, -1, 0, 1, 2>>
OffForward == <<-1, 0, 1, 2, 3>>
OffBackward == <<-3, -2, -1, 0, 1>>

\* every evaluation of the pair (d4pdx4, d4pdy4), in program order
CavInteriorSites ==
    {[i |-> i, j |-> j, ox |-> OffCentralDown, oy |-> OffCentralDown,
      kind |-> "interior"] : i \in 2..(imax - 4), j \in 2..(jmax - 4)}

CavCornerSites ==
    {[i |-> 1, j |-> 1, ox |-> OffForward, oy |-> OffForward, kind |-> "corner"],
     [i |-> 1, j |-> jmax - 2, ox |-> OffForward, oy |-> OffBackward,
      kind |-> "corner"],
     [i |-> imax - 2, j |-> 1, ox |-> OffBackward, oy |-> OffForward,
      kind |-> "corner"],
     [i |-> imax - 2, j |-> jmax - 2, ox |-> OffBackward, oy |-> OffBackward,
      kind |-> "corner"]}

CavLeftSites ==
    {[i |-> 2, j |-> j, ox |-> OffForward, oy |-> OffCentralUp,
      kind |-> "left"] : j \in 2..(jmax - 2)}

CavRightSites ==
    {[i |-> imax - 2, j |-> j, ox |-> OffBackward, oy |-> OffCentralUp,
      kind |-> "right"] : j \in 2..(jmax - 2)}

CavBottomSites ==
    {[i |-> i, j |-> 2, ox |-> OffCentralUp, oy |-> OffForward,
      kind |-> "bottom"] : i \in 2..(imax - 2)}

CavTopSites ==
    {[i |-> i, j |-> jmax - 2, ox |-> OffCentralUp, oy |-> OffBackward,
      kind |-> "top"] : i \in 2..(imax - 2)}

CavSites ==
    CavInteriorSites \cup CavCornerSites \cup CavLeftSites \cup CavRightSites
        \cup CavBottomSites \cup CavTopSites

\* the (i, j) of every u(i,j,0) a site reads
SiteReads(st) ==
    {<<st.i + st.ox[m], st.j>> : m \in 1..5}
        \cup {<<st.i, st.j + st.oy[m]>> : m \in 1..5}

Compute_Artificial_Viscosity_reads == UNION {SiteReads(st) : st \in CavSites}

\* u(i,j,0) through Array3::operator(), with no bounds check
Rd(u, i, j, oob) ==
    LET x == Idx3(i, j, 0)
    IN  IF x >= 0 /\ x < N3 THEN u[x] ELSE oob

Stencil(v1, v2, v3, v4, v5) ==
    FAdd(FSub(FAdd(FSub(v1, FMul(FI(4), v2)), FMul(FI(6), v3)),
              FMul(FI(4), v4)),
         v5)

SiteD4x(u, st, oob) ==
    FDiv(Stencil(Rd(u, st.i + st.ox[1], st.j, oob),
                 Rd(u, st.i + st.ox[2], st.j, oob),
                 Rd(u, st.i + st.ox[3], st.j, oob),
                 Rd(u, st.i + st.ox[4], st.j, oob),
                 Rd(u, st.i + st.ox[5], st.j, oob)),
         IF st.kind = "interior" THEN FMul(FMul(FMul(dx, dx), dx), dx) ELSE dx)

SiteD4y(u, st, oob) ==
    FDiv(Stencil(Rd(u, st.i, st.j + st.oy[1], oob),
                 Rd(u, st.i, st.j + st.oy[2], oob),
                 Rd(u, st.i, st.j + st.oy[3], oob),
                 Rd(u, st.i, st.j + st.oy[4], oob),
                 Rd(u, st.i, st.j + st.oy[5], oob)),
         IF st.kind = "interior" THEN FMul(FMul(FMul(dy, dy), dy), dy) ELSE dy)

CavBeta2(g) == StdMax(g, FMul(rkappa, vel2ref))

\* lambda = (1/2)*(abs(vel) + sqrt(vel*vel + 4*beta2))
CavLambda(vel, g) ==
    FMul(FI(1 \div 2),
         FAdd(FAbs(vel), FSqrt(FAdd(FMul(vel, vel), FMul(FI(4), CavBeta2(g))))))

\* the cell whose lambda_x, lambda_y a site uses
LambdaCell(st) ==
    IF st.kind = "interior" THEN <<st.i, st.j>> ELSE <<imax - 4, jmax - 4>>

\* visc = (d4)*(-abs(lambda)*C*(d*d*d))/beta2
ViscTerm(d4, lambda, C, d, g) ==
    FDiv(FMul(d4, FMul(FMul(FNeg(FAbs(lambda)), C), FMul(FMul(d, d), d))),
         CavBeta2(g))

SiteViscx(u, st, g, oob) ==
    ViscTerm(SiteD4x(u, st, oob),
             CavLambda(At(u, LambdaCell(st)[1], LambdaCell(st)[2], 1), g),
             Cx, dx, g)

SiteViscy(u, st, g, oob) ==
    ViscTerm(SiteD4y(u, st, oob),
             CavLambda(At(u, LambdaCell(st)[1], LambdaCell(st)[2], 2), g),
             Cy, dy, g)

\* the site whose value a cell keeps at the end (the last assignment to
\* viscx(i,j)), or no site when the function never assigns the cell
CavWriter(i, j) ==
    IF j = jmax - 2 /\ i >= 2 /\ i <= imax - 2
    THEN {st \in CavTopSites : st.i = i}
    ELSE IF i = imax - 2 /\ j >= 2 /\ j <= jmax - 2
    THEN {st \in CavRightSites : st.j = j}
    ELSE {st \in CavCornerSites \cup CavInteriorSites : st.i = i /\ st.j = j}

Compute_Artificial_Viscosity_x(u, vx, g, oob) ==
    Stored([x \in 0..(N2 - 1) |->
        LET w == CavWriter(CellI2(x), CellJ2(x))
        IN  IF w = {} THEN vx[x]
            ELSE SiteViscx(u, CHOOSE st \in w : TRUE, g, oob)])

Compute_Artificial_Viscosity_y(u, vy, g, oob) ==
    Stored([x \in 0..(N2 - 1) |->
        LET w == CavWriter(CellI2(x), CellJ2(x))
        IN  IF w = {} THEN vy[x]
            ELSE SiteViscy(u, CHOOSE st \in w : TRUE, g, oob)])

(***************************************************************************)
(* The per-cell update.  a is the array the derivatives and the cell's own  *)
(* values are read from (uold for point Jacobi, u itself for the sweeps).   *)
(***************************************************************************)
Ddx(a, i, j, k) ==
    FDiv(FSub(At(a, i + 1, j, k), At(a, i - 1, j, k)), FMul(FI(2), dx))
Ddy(a, i, j, k) ==
    FDiv(FSub(At(a, i, j + 1, k), At(a, i, j - 1, k)), FMul(FI(2), dy))
D2dx2(a, i, j, k) ==
    FDiv(FAdd(FSub(At(a, i + 1, j, k), FMul(FI(2), At(a, i, j, k))),
              At(a, i - 1, j, k)),
         FMul(dx, dx))
D2dy2(a, i, j, k) ==
    FDiv(FAdd(FSub(At(a, i, j + 1, k), FMul(FI(2), At(a, i, j, k))),
              At(a, i, j - 1, k)),
         FMul(dy, dy))

CellBeta2(a, i, j) ==
    StdMax(FAdd(FMul(At(a, i, j, 1), At(a, i, j, 1)),
                FMul(At(a, i, j, 2), At(a, i, j, 2))),
           FMul(rkappa, vel2ref))

\* p - beta2*dt*(rho*dudx + rho*dvdy - viscx - viscy - s0)
UpdateP(a, i, j, vx, vy, dtt, s) ==
    FSub(At(a, i, j, 0),
         FMul(FMul(CellBeta2(a, i, j), At2(dtt, i, j)),
              FSub(FSub(FSub(FAdd(FMul(rho, Ddx(a, i, j, 1)),
                                  FMul(rho, Ddy(a, i, j, 2))),
                             At2(vx, i, j)),
                        At2(vy, i, j)),
                   At(s, i, j, 0))))

\* the momentum residual of component k (1 or 2), the convecting velocities
\* given: rho*uc*d/dx + rho*vc*d/dy + dp - rmu*d2/dx2 - rmu*d2/dy2 - s
Momentum(a, i, j, k, uc, vc, s) ==
    FSub(FSub(FSub(FAdd(FAdd(FMul(FMul(rho, uc), Ddx(a, i, j, k)),
                             FMul(FMul(rho, vc), Ddy(a, i, j, k))),
                        IF k = 1 THEN Ddx(a, i, j, 0) ELSE Ddy(a, i, j, 0)),
                   FMul(rmu, D2dx2(a, i, j, k))),
              FMul(rmu, D2dy2(a, i, j, k))),
         At(s, i, j, k))

(***************************************************************************)
(* point_Jacobi: every interior cell of u from uold; the other cells of u   *)
(* keep what the buffer held.                                               *)
(***************************************************************************)
PJ_cell(uold, i, j, k, vx, vy, dtt, s) ==
    IF k = 0 THEN UpdateP(uold, i, j, vx, vy, dtt, s)
    ELSE FSub(At(uold, i, j, k),
              FMul(FMul(At2(dtt, i, j), rhoinv),
                   Momentum(uold, i, j, k, At(uold, i, j, 1),
                            At(uold, i, j, 2), s)))

\* a variant that takes the derivatives and the cell's values from u
point_Jacobi_fromCurrent(u, uold, vx, vy, dtt, s) ==
    Stored([x \in 0..(N3 - 1) |->
        IF Interior(CellI3(x), CellJ3(x))
        THEN PJ_cell(u, CellI3(x), CellJ3(x), CellK3(x), vx, vy, dtt, s)
        ELSE u[x]])

\* a variant whose loops run over the whole array: a border cell takes the
\* value uold holds there
point_Jacobi_wholeArray(u, uold, vx, vy, dtt, s) ==
    Stored([x \in 0..(N3 - 1) |->
        IF Interior(CellI3(x), CellJ3(x))
        THEN PJ_cell(uold, CellI3(x), CellJ3(x), CellK3(x), vx, vy, dtt, s)
        ELSE uold[x]])

point_Jacobi(u, uold, vx, vy, dtt, s) ==
    Stored([x \in 0..(N3 - 1) |->
        IF Interior(CellI3(x), CellJ3(x))
        THEN PJ_cell(uold, CellI3(x), CellJ3(x), CellK3(x), vx, vy, dtt, s)
        ELSE u[x]])

\* the three assignments of one cell of the loop, and the loop taken cell by
\* cell with i and j going up (as written) or going down
PJ_assign(u, uold, i, j, vx, vy, dtt, s) ==
    [u EXCEPT ![Idx3(i, j, 0)] = PJ_cell(uold, i, j, 0, vx, vy, dtt, s),
              ![Idx3(i, j, 1)] = PJ_cell(uold, i, j, 1, vx, vy, dtt, s),
              ![Idx3(i, j, 2)] = PJ_cell(uold, i, j, 2, vx, vy, dtt, s)]

RECURSIVE PJ_UpJ(_, _, _, _, _, _, _, _)
PJ_UpJ(u, uold, i, j, vx, vy, dtt, s) ==
    IF IsStored(u) /\ j > jmax - 2 THEN u
    ELSE PJ_UpJ(PJ_assign(u, uold, i, j, vx, vy, dtt, s), uold, i, j + 1,
                vx, vy, dtt, s)

RECURSIVE PJ_UpI(_, _, _, _, _, _, _)
PJ_UpI(u, uold, i, vx, vy, dtt, s) ==
    IF IsStored(u) /\ i > imax - 2 THEN u
    ELSE PJ_UpI(PJ_UpJ(u, uold, i, 1, vx, vy, dtt, s), uold, i + 1,
                vx, vy, dtt, s)

RECURSIVE PJ_DownJ(_, _, _, _, _, _, _, _)
PJ_DownJ(u, uold, i, j, vx, vy, dtt, s) ==
    IF IsStored(u) /\ j < 1 THEN u
    ELSE PJ_DownJ(PJ_assign(u, uold, i, j, vx, vy, dtt, s), uold, i, j - 1,
                  vx, vy, dtt, s)

RECURSIVE PJ_DownI(_, _, _, _, _, _, _)
PJ_DownI(u, uold, i, vx, vy, dtt, s) ==
    IF IsStored(u) /\ i < 1 THEN u
    ELSE PJ_DownI(PJ_DownJ(u, uold, i, jmax - 2, vx, vy, dtt, s), uold, i - 1,
                  vx, vy, dtt, s)

(***************************************************************************)
(* SGS_forward_sweep / SGS_backward_sweep: in place.  The derivatives of a  *)
(* cell are taken before its three assignments; the assignment of u(i,j,2)  *)
(* reads the u(i,j,1) assigned on the line before.                          *)
(***************************************************************************)
SGS_cell(u, i, j, vx, vy, dtt, s) ==
    LET p1 == UpdateP(u, i, j, vx, vy, dtt, s)
        u1 == FSub(At(u, i, j, 1),
                   FMul(FMul(At2(dtt, i, j), rhoinv),
                        Momentum(u, i, j, 1, At(u, i, j, 1), At(u, i, j, 2),
                                 s)))
        v1 == FSub(At(u, i, j, 2),
                   FMul(FMul(At2(dtt, i, j), rhoinv),
                        Momentum(u, i, j, 2, u1, At(u, i, j, 2), s)))
    IN  [u EXCEPT ![Idx3(i, j, 0)] = p1,
                  ![Idx3(i, j, 1)] = u1,
                  ![Idx3(i, j, 2)] = v1]

\* the j loop of column i from j on, and the i loop from i on
RECURSIVE SweepUpJ(_, _, _, _, _, _, _)
SweepUpJ(u, i, j, vx, vy, dtt, s) ==
    IF IsStored(u) /\ j > jmax - 2 THEN u
    ELSE SweepUpJ(SGS_cell(u, i, j, vx, vy, dtt, s), i, j + 1, vx, vy, dtt, s)

RECURSIVE SweepUpI(_, _, _, _, _, _)
SweepUpI(u, i, vx, vy, dtt, s) ==
    IF IsStored(u) /\ i > imax - 2 THEN u
    ELSE SweepUpI(SweepUpJ(u, i, 1, vx, vy, dtt, s), i + 1, vx, vy, dtt, s)

RECURSIVE SweepDownJ(_, _, _, _, _, _, _)
SweepDownJ(u, i, j, vx, vy, dtt, s) ==
    IF IsStored(u) /\ j < 1 THEN u
    ELSE SweepDownJ(SGS_cell(u, i, j, vx, vy, dtt, s), i, j - 1, vx, vy, dtt, s)

RECURSIVE SweepDownI(_, _, _, _, _, _)
SweepDownI(u, i, vx, vy, dtt, s) ==
    IF IsStored(u) /\ i < 1 THEN u
    ELSE SweepDownI(SweepDownJ(u, i, jmax - 2, vx, vy, dtt, s), i - 1,
                    vx, vy, dtt, s)

\* a variant of the forward sweep with both loops going down
SGS_forward_sweep_descending(u, vx, vy, dtt, s) ==
    SweepDownI(u, imax - 2, vx, vy, dtt, s)

SGS_forward_sweep(u, vx, vy, dtt, s) == SweepUpI(u, 1, vx, vy, dtt, s)
SGS_backward_sweep(u, vx, vy, dtt, s) == SweepDownI(u, imax - 2, vx, vy, dtt, s)

(***************************************************************************)
(* check_iterative_convergence                                              *)
(***************************************************************************)
\* res[k] += diff*diff in the order of the loops over i and j
RECURSIVE SumSqJ(_, _, _, _, _, _, _)
SumSqJ(u, uold, dtt, k, i, j, acc) ==
    IF IsStored(acc) /\ j > jmax - 2 THEN acc
    ELSE LET diff == FDiv(FSub(At(u, i, j, k), At(uold, i, j, k)),
                          At2(dtt, i, j))
         IN  SumSqJ(u, uold, dtt, k, i, j + 1, FAdd(acc, FMul(diff, diff)))

RECURSIVE SumSqI(_, _, _, _, _, _)
SumSqI(u, uold, dtt, k, i, acc) ==
    IF IsStored(acc) /\ i > imax - 2 THEN acc
    ELSE SumSqI(u, uold, dtt, k, i + 1, SumSqJ(u, uold, dtt, k, i, 1, acc))

\* sqrt(res[k]/((imax-2)*(jmax-2)))
RmsResidual(u, uold, dtt, k) ==
    FSqrt(FDiv(SumSqI(u, uold, dtt, k, 1, FI(0)),
               FI((imax - 2) * (jmax - 2))))

RmsResiduals(u, uold, dtt) == [k \in 0..(neq - 1) |-> RmsResidual(u, uold, dtt, k)]

\* res[k] = res[k]/resinit[k]
NormalizedResiduals(raw, rinit) == [k \in 0..(neq - 1) |-> FDiv(raw[k], rinit[k])]

\* first = max(res[0],res[1]); conv = max(first,res[2])
ConvOf(r) == StdMax(StdMax(r[0], r[1]), r[2])

\* the residual line is written when (n%residualOut)==0 or n==ninit
HistoryDue(nn, n0) == (nn % residualOut) = 0 \/ nn = n0

(***************************************************************************)
(* PJ_iteration and GS_iteration, on the heap and the two data pointers.    *)
(* Each call of Compute_Artificial_Viscosity has its own g and oob.         *)
(***************************************************************************)
\* a variant without the exchange of the two buffers
PJ_iteration_noSwap(h, ud, uod, vx, vy, dtt, s, g, oob) ==
    LET vx1 == Compute_Artificial_Viscosity_x(h[uod], vx, g, oob)
        vy1 == Compute_Artificial_Viscosity_y(h[uod], vy, g, oob)
        u1 == point_Jacobi(h[ud], h[uod], vx1, vy1, dtt, s)
    IN  [heap |-> [h EXCEPT ![ud] = set_boundary_conditions(u1)],
         u_data |-> ud, uold_data |-> uod, viscx |-> vx1, viscy |-> vy1]

PJ_iteration(h, ud, uod, vx, vy, dtt, s, g, oob) ==
    LET ptr == swapData(uod, ud)
        uod1 == ptr[1]
        ud1 == ptr[2]
        vx1 == Compute_Artificial_Viscosity_x(h[uod1], vx, g, oob)
        vy1 == Compute_Artificial_Viscosity_y(h[uod1], vy, g, oob)
        u1 == point_Jacobi(h[ud1], h[uod1], vx1, vy1, dtt, s)
    IN  [heap |-> [h EXCEPT ![ud1] = set_boundary_conditions(u1)],
         u_data |-> ud1, uold_data |-> uod1, viscx |-> vx1, viscy |-> vy1]

\* the record an iteration returns: the buffers and what u and uold point to
IterationState(h, ud, uod, vx, vy) ==
    [heap |-> h, u_data |-> ud, uold_data |-> uod, viscx |-> vx, viscy |-> vy]

\* one half of GS_iteration after its Compute_Artificial_Viscosity: a sweep
\* and the boundary conditions
GS_forward_sweep_bc(h, ud, uod, vx1, vy1, dtt, s) ==
    IterationState([h EXCEPT ![ud] = set_boundary_conditions(
                                         SGS_forward_sweep(h[ud], vx1, vy1, dtt, s))],
                   ud, uod, vx1, vy1)

GS_backward_sweep_bc(h, ud, uod, vx2, vy2, dtt, s) ==
    IterationState([h EXCEPT ![ud] = set_boundary_conditions(
                                         SGS_backward_sweep(h[ud], vx2, vy2, dtt, s))],
                   ud, uod, vx2, vy2)

\* GS_iteration up to the boundary conditions after the forward sweep
GS_iteration_forward(h, ud, uod, vx, vy, dtt, s, g, oob) ==
    GS_forward_sweep_bc(copyData(h, uod, ud), ud, uod,
                        Compute_Artificial_Viscosity_x(h[ud], vx, g, oob),
                        Compute_Artificial_Viscosity_y(h[ud], vy, g, oob),
                        dtt, s)

\* a variant of the second half that keeps the dissipation of the first
GS_iteration_backward_stale(h, ud, uod, vx, vy, dtt, s, g2, oob2) ==
    GS_backward_sweep_bc(h, ud, uod, vx, vy, dtt, s)

\* GS_iteration from the second Compute_Artificial_Viscosity on
GS_iteration_backward(h, ud, uod, vx, vy, dtt, s, g2, oob2) ==
    GS_backward_sweep_bc(h, ud, uod,
                         Compute_Artificial_Viscosity_x(h[ud], vx, g2, oob2),
                         Compute_Artificial_Viscosity_y(h[ud], vy, g2, oob2),
                         dtt, s)

(***************************************************************************)
(* What memory may hold before the program writes it: the buffers of        *)
(* "new double[...]", the locals declared without an initializer, and the   *)
(* bytes past the end of a buffer.                                          *)
(***************************************************************************)
HeapGarbage == {FI(0), Dec(1, 2), NaN, PInf}
StackGarbage == {FI(0), NaN}
OobGarbage == {FI(0), NaN}

\* the user inputs the runs vary: the three mode selectors and toler
TolerSet == {Dec(4, 100)}
CfgSet ==
    {c \in [imms : 0..2, isgs : 0..2, irstr : 0..2, toler : TolerSet] :
        \* at most one selector is invalid in a run
        /\ Cardinality({f \in {"imms", "isgs", "irstr"} : c[f] = 2}) <= 1
        \* a restart is run for the cavity with Point Jacobi
        /\ c.irstr = 1 => (c.imms = 0 /\ c.isgs = 0)}

U == heap[u_data]
UOLD == heap[uold_data]

Uniform3(g) == Stored([x \in 0..(N3 - 1) |-> g])
Uniform2(g) == Stored([x \in 0..(N2 - 1) |-> g])

(***************************************************************************)
(* main(), from the declarations to the first statement.                    *)
(***************************************************************************)
Init ==
    \E c \in CfgSet, g \in HeapGarbage :
        /\ cfg = c
        /\ pc = "main"
        /\ heap = [b \in 1..2 |-> Uniform3(g)]
        /\ u_data = 1
        /\ uold_data = 2
        /\ src = Uniform3(g)
        /\ viscx = Uniform2(g)
        /\ viscy = Uniform2(g)
        /\ dt = Uniform2(g)
        /\ n = 0
        /\ ninit = 0
        /\ rtime = g
        /\ dtmin = Fin(Huge)
        /\ res = [k \in 0..(neq - 1) |-> g]
        /\ resinit = [k \in 0..(neq - 1) |-> g]
        /\ conv = g
        /\ rawres = [k \in 0..(neq - 1) |-> g]
        /\ rawinit = [k \in 0..(neq - 1) |-> g]
        /\ cavReads = {}
        /\ steps = <<>>
        /\ executed = <<>>
        /\ convlog = <<>>
        /\ history = <<>>
        /\ outputs = <<>>
        /\ restartOut = <<>>
        /\ filesOpen = FALSE
        /\ last = "none"
        /\ pre = Uniform3(g)

(***************************************************************************)
(* write_output(n, u, dt, resinit, rtime): one zone of the field file and   *)
(* the restart file, which is overwritten.  at is the place of the call.    *)
(***************************************************************************)
write_output_log(nn, at) ==
    Append(outputs, [n |-> nn, at |-> at, open |-> filesOpen])
\* fprintf "%e": seven significant decimal digits; nan and inf by name
RECURSIVE RoundSig(_)
RoundSig(m) ==
    IF AbsInt(m) < 10 * ONE * ONE THEN m ELSE 10 * RoundSig(RDiv(m, 10))
FormatE(a) == IF a.c = "fin" THEN [c |-> "fin", v |-> RoundSig(a.v)] ELSE a
\* fscanf "%lf": the double the text stands for
ScanLf(t) == IF t.c = "fin" THEN Fin(t.v) ELSE t

\* the text of restart.out: lines 653, 654 and 661
RestartFile(nn, rt, ri, u) ==
    [n |-> nn, rtime |-> FormatE(rt),
     resinit |-> [k \in 0..(neq - 1) |-> FormatE(ri[k])],
     u |-> Stored([x \in 0..(N3 - 1) |-> FormatE(u[x])])]
write_output_restart(nn) == <<RestartFile(nn, rtime, resinit, U)>>

\* initial(), irstr == 1, on the restart file f.  fscanf is handed the
\* values of ninit and rtime where it expects their addresses (line 459):
\* the two numbers are stored through whatever those arguments hold as
\* pointers, which ends the process ("crash") or writes elsewhere
\* ("stray"); ninit and rtime are not assigned.
FscanfOutcomes == {"crash", "stray"}
initial_restart_ninit(f, ninit0) == ninit0 + 1
initial_restart_rtime(f, rtime0) == rtime0
initial_restart_resinit(f) == [k \in 0..(neq - 1) |-> ScanLf(f.resinit[k])]
initial_restart_u(f) == Stored([x \in 0..(N3 - 1) |-> ScanLf(f.u[x])])

ghosts == <<rawres, rawinit, cavReads, steps, executed, convlog, last, pre>>
files == <<history, outputs, restartOut, filesOpen>>
fields == <<heap, u_data, uold_data, src, viscx, viscy, dt>>
scalars == <<n, ninit, rtime, dtmin, res, resinit, conv>>

(***************************************************************************)
(* main(): startup (lines 1475-1530)                                        *)
(***************************************************************************)
\* if(isgs==1) ... else if(isgs==0) ... else exit(0)
SelectScheme ==
    /\ pc = "main"
    /\ pc' = IF isgs = 1 \/ isgs = 0 THEN "select_bc" ELSE "exit"
    /\ UNCHANGED <<cfg, fields, scalars, ghosts, files>>

\* if(imms==0) ... else if(imms==1) ... else exit(0)
SelectBC ==
    /\ pc = "select_bc"
    /\ pc' = IF imms = 0 \/ imms = 1 THEN "headers" ELSE "exit"
    /\ UNCHANGED <<cfg, fields, scalars, ghosts, files>>

\* set_derived_inputs(); output_file_headers(): opens fp1 and fp2
OutputFileHeaders ==
    /\ pc = "headers"
    /\ pc' = IF imms = 1 \/ imms = 0 THEN "initial" ELSE "exit"
    /\ filesOpen' = TRUE
    /\ UNCHANGED <<cfg, fields, scalars, ghosts, history, outputs, restartOut>>

\* what ./restart.in holds when a restart is asked for: nothing, or the
\* restart.out of a run stopped after its first write_output
RestartIn ==
    {RestartFile(1, FI(0), [k \in 0..(neq - 1) |-> FI(1)], bndry(initial_u))}
NoFile == [n |-> 0]

\* initial(ninit, rtime, resinit, u, src), irstr == 0
InitialFresh ==
    /\ irstr = 0
    /\ ninit' = 1
    /\ rtime' = FI(0)
    /\ resinit' = [k \in 0..(neq - 1) |-> FI(1)]
    /\ heap' = [heap EXCEPT ![u_data] = initial_u]
    /\ src' = initial_s
    /\ pc' = "initial_bc"

\* initial(ninit, rtime, resinit, u, src), irstr == 1
InitialRestart ==
    /\ irstr = 1
    /\ \E f \in RestartIn \cup {NoFile}, o \in FscanfOutcomes :
          IF f = NoFile
          THEN /\ pc' = "exit"
               /\ UNCHANGED <<ninit, rtime, resinit, heap, src>>
          ELSE IF o = "crash"
          THEN /\ pc' = "crash"
               /\ UNCHANGED <<ninit, rtime, resinit, heap, src>>
          ELSE /\ ninit' = initial_restart_ninit(f, ninit)
               /\ rtime' = initial_restart_rtime(f, rtime)
               /\ resinit' = initial_restart_resinit(f)
               /\ heap' = [heap EXCEPT ![u_data] = initial_restart_u(f)]
               /\ src' = src
               /\ pc' = "initial_bc"

\* a variant of the last branch that starts from scratch instead of exiting
InitialExit_asFresh ==
    /\ irstr # 0 /\ irstr # 1
    /\ ninit' = 1
    /\ rtime' = FI(0)
    /\ resinit' = [k \in 0..(neq - 1) |-> FI(1)]
    /\ heap' = [heap EXCEPT ![u_data] = initial_u]
    /\ src' = initial_s
    /\ pc' = "initial_bc"

\* initial(ninit, rtime, resinit, u, src), irstr neither 0 nor 1: exit(0)
InitialExit ==
    /\ irstr # 0 /\ irstr # 1
    /\ pc' = "exit"
    /\ UNCHANGED <<ninit, rtime, resinit, heap, src>>

Initial ==
    /\ pc = "initial"
    /\ (InitialFresh \/ InitialRestart \/ InitialExit)
    /\ UNCHANGED <<cfg, u_data, uold_data, viscx, viscy, dt, n, dtmin, res,
                   conv, ghosts, files>>

\* set_boundary_conditions( u )
InitialBC ==
    /\ pc = "initial_bc"
    /\ heap' = [heap EXCEPT ![u_data] = set_boundary_conditions(U)]
    /\ pc' = "initial_write"
    /\ UNCHANGED <<cfg, u_data, uold_data, src, viscx, viscy, dt, scalars,
                   ghosts, files>>

\* write_output(ninit, u, dt, resinit, rtime)
InitialWrite ==
    /\ pc = "initial_write"
    /\ outputs' = write_output_log(ninit, pc)
    /\ restartOut' = write_output_restart(ninit)
    /\ pc' = "source_terms"
    /\ UNCHANGED <<cfg, fields, scalars, ghosts, history, filesOpen>>

\* compute_source_terms( src ); then for (n = ninit; ...
ComputeSourceTerms ==
    /\ pc = "source_terms"
    /\ src' = compute_source_terms(src)
    /\ n' = ninit
    /\ pc' = "loop_test"
    /\ UNCHANGED <<cfg, heap, u_data, uold_data, viscx, viscy, dt, ninit, rtime,
                   dtmin, res, resinit, conv, ghosts, files>>

(***************************************************************************)
(* main(): the loop (lines 1533-1562)                                       *)
(***************************************************************************)
\* a variant of the loop condition that lets one more iteration through
LoopCondition_late(nn) == nn <= nmax + 1

\* the condition of "for (n = ninit; n <= nmax; n++)"
LoopCondition(nn) == nn <= nmax

LoopTest ==
    /\ pc = "loop_test"
    /\ IF LoopCondition(n)
       THEN /\ pc' = "time_step"
            /\ steps' = <<>>
            /\ executed' = Append(executed, n)
       ELSE /\ pc' = "exhausted"
            /\ UNCHANGED <<steps, executed>>
    /\ UNCHANGED <<cfg, fields, scalars, rawres, rawinit, cavReads, convlog,
                   last, pre, files>>

\* compute_time_step( u, dt, dtmin )
ComputeTimeStep ==
    /\ pc = "time_step"
    /\ dt' = compute_time_step_dt(U, dt, dtmin)
    /\ dtmin' = compute_time_step_dtmin(dt', dtmin)
    /\ steps' = Append(steps, "compute_time_step")
    /\ pc' = "iteration_step"
    /\ UNCHANGED <<cfg, heap, u_data, uold_data, src, viscx, viscy, n, ninit,
                   rtime, res, resinit, conv, rawres, rawinit, cavReads,
                   executed, convlog, last, pre, files>>

IterationResult(r) ==
    /\ heap' = r.heap
    /\ u_data' = r.u_data
    /\ uold_data' = r.uold_data
    /\ viscx' = r.viscx
    /\ viscy' = r.viscy
    /\ cavReads' = Compute_Artificial_Viscosity_reads

\* iterationStep( set_boundary_conditions, u, uold, src, viscx, viscy, dt ):
\* PJ_iteration, or GS_iteration up to the end of its forward half
IterationStep ==
    /\ pc = "iteration_step"
    /\ \/ /\ isgs = 0
          /\ \E g \in StackGarbage, oob \in OobGarbage :
                IterationResult(PJ_iteration(heap, u_data, uold_data, viscx,
                                             viscy, dt, src, g, oob))
          /\ steps' = Append(steps, "iterationStep")
          /\ pc' = "rescale"
       \/ /\ isgs = 1
          /\ \E g \in StackGarbage, oob \in OobGarbage :
                IterationResult(GS_iteration_forward(heap, u_data, uold_data,
                                                     viscx, viscy, dt, src, g,
                                                     oob))
          /\ steps' = steps
          /\ pc' = "gs_backward"
    /\ UNCHANGED <<cfg, src, dt, scalars, rawres, rawinit, executed, convlog,
                   last, pre, files>>

\* the backward half of GS_iteration, and the return of iterationStep
IterationStepBackward ==
    /\ pc = "gs_backward"
    /\ \E g2 \in StackGarbage, oob2 \in OobGarbage :
          IterationResult(GS_iteration_backward(heap, u_data, uold_data, viscx,
                                                viscy, dt, src, g2, oob2))
    /\ steps' = Append(steps, "iterationStep")
    /\ pc' = "rescale"
    /\ UNCHANGED <<cfg, src, dt, scalars, rawres, rawinit, executed, convlog,
                   last, pre, files>>

\* pressure_rescaling( u )
PressureRescaling ==
    /\ pc = "rescale"
    /\ heap' = [heap EXCEPT ![u_data] = pressure_rescaling(U)]
    /\ steps' = Append(steps, "pressure_rescaling")
    /\ pc' = "update_time"
    /\ UNCHANGED <<cfg, u_data, uold_data, src, viscx, viscy, dt, scalars,
                   rawres, rawinit, cavReads, executed, convlog, last, pre,
                   files>>

\* rtime += dtmin
UpdateTime ==
    /\ pc = "update_time"
    /\ rtime' = FAdd(rtime, dtmin)
    /\ steps' = Append(steps, "update_time")
    /\ pc' = "check"
    /\ UNCHANGED <<cfg, fields, n, ninit, dtmin, res, resinit, conv, rawres,
                   rawinit, cavReads, executed, convlog, last, pre,
                   files>>

\* check_iterative_convergence(n, u, uold, dt, res, resinit, ninit, rtime,
\* dtmin, conv): resinit is read, never assigned
CheckIterativeConvergence ==
    /\ pc = "check"
    /\ rawres' = RmsResiduals(U, UOLD, dt)
    /\ res' = NormalizedResiduals(rawres', resinit)
    /\ conv' = ConvOf(res')
    /\ history' = IF HistoryDue(n, ninit)
                  THEN Append(history, [n |-> n, rtime |-> rtime, res |-> res'])
                  ELSE history
    /\ rawinit' = IF n = ninit THEN rawres' ELSE rawinit
    /\ convlog' = Append(convlog, conv')
    /\ steps' = Append(steps, "check_iterative_convergence")
    /\ pc' = "conv_test"
    /\ UNCHANGED <<cfg, fields, n, ninit, rtime, dtmin, resinit, cavReads,
                   executed, last, pre, outputs, restartOut, filesOpen>>

\* a variant of the test written !(conv >= toler), which is true of a NaN
ConvergedTest_notGe(c, t) ==
    ~(c.c # "nan" /\ t.c # "nan" /\ Ord(c) >= Ord(t))

\* conv<toler
ConvergedTest(c, t) == FLt(c, t)

\* if(conv<toler) { fprintf(fp1, ...); goto converged; }
ConvTest ==
    /\ pc = "conv_test"
    /\ IF ConvergedTest(conv, toler)
       THEN /\ history' = Append(history, [n |-> n, rtime |-> rtime, res |-> res])
            /\ pc' = "converged"
       ELSE /\ pc' = "periodic"
            /\ UNCHANGED history
    /\ UNCHANGED <<cfg, fields, scalars, ghosts, outputs, restartOut, filesOpen>>

\* a variant of the periodic test that lets every iteration write
PeriodicDue_always(nn) == nn >= 0

\* (n%iterout)==0
PeriodicDue(nn) == (nn % iterout) = 0

\* if( ((n%iterout)==0) ) write_output(n, u, dt, resinit, rtime)
PeriodicOutput ==
    /\ pc = "periodic"
    /\ IF PeriodicDue(n)
       THEN /\ outputs' = write_output_log(n, pc)
            /\ restartOut' = write_output_restart(n)
            /\ steps' = Append(steps, "write_output")
       ELSE UNCHANGED <<outputs, restartOut, steps>>
    /\ pc' = "loop_incr"
    /\ UNCHANGED <<cfg, fields, scalars, rawres, rawinit, cavReads, executed,
                   convlog, last, pre, history, filesOpen>>

\* n++
LoopIncrement ==
    /\ pc = "loop_incr"
    /\ n' = n + 1
    /\ pc' = "loop_test"
    /\ UNCHANGED <<cfg, fields, ninit, rtime, dtmin, res, resinit, conv, ghosts,
                   files>>

(***************************************************************************)
(* main(): after the loop (lines 1564-1586)                                 *)
(***************************************************************************)
\* printf("... maximum number of timesteps was exceeded"); goto notconverged
Exhausted ==
    /\ pc = "exhausted"
    /\ pc' = "notconverged"
    /\ UNCHANGED <<cfg, fields, scalars, ghosts, files>>

\* a variant of the converged label placed after the final write_output
Converged_afterWrite ==
    /\ pc = "converged"
    /\ pc' = "close"
    /\ UNCHANGED <<cfg, fields, scalars, ghosts, files>>

\* converged: the two printf
Converged ==
    /\ pc = "converged"
    /\ pc' = "notconverged"
    /\ UNCHANGED <<cfg, fields, scalars, ghosts, files>>

\* notconverged: Discretization_Error_Norms( u ), whose body is empty
ErrorNorms ==
    /\ pc = "notconverged"
    /\ pc' = "final_write"
    /\ UNCHANGED <<cfg, fields, scalars, ghosts, files>>

\* write_output(n, u, dt, resinit, rtime)
FinalWrite ==
    /\ pc = "final_write"
    /\ outputs' = write_output_log(n, pc)
    /\ restartOut' = write_output_restart(n)
    /\ pc' = "close"
    /\ UNCHANGED <<cfg, fields, scalars, ghosts, history, filesOpen>>

\* fclose(fp1); fclose(fp2); return 0
CloseFiles ==
    /\ pc = "close"
    /\ filesOpen' = FALSE
    /\ pc' = "done"
    /\ UNCHANGED <<cfg, fields, scalars, ghosts, history, outputs, restartOut>>

Next ==
    \/ SelectScheme
    \/ SelectBC
    \/ OutputFileHeaders
    \/ Initial
    \/ InitialBC
    \/ InitialWrite
    \/ ComputeSourceTerms
    \/ LoopTest
    \/ ComputeTimeStep
    \/ IterationStep
    \/ IterationStepBackward
    \/ PressureRescaling
    \/ UpdateTime
    \/ CheckIterativeConvergence
    \/ ConvTest
    \/ PeriodicOutput
    \/ LoopIncrement
    \/ Exhausted
    \/ Converged
    \/ ErrorNorms
    \/ FinalWrite
    \/ CloseFiles

Spec == Init /\ [][Next]_vars

(***************************************************************************)
(* The functions called one at a time on given inputs.  The field u is one  *)
(* of InputFields (a restart file can hold any field); uold holds either    *)
(* what the allocation left there or a copy of u; viscx and viscy hold what *)
(* the allocation or an earlier call left there.                            *)
(***************************************************************************)
PriorContents == {FI(0), Dec(1, 2), NaN}

\* uniform pressure and velocity: the fluid at rest, and a uniform stream
FieldAtRest ==
    Stored([x \in 0..(N3 - 1) |-> IF CellK3(x) = 0 THEN pinf ELSE FI(0)])
FieldStream ==
    Stored([x \in 0..(N3 - 1) |->
               CASE CellK3(x) = 0 -> Dec(1, 2)
                 [] CellK3(x) = 1 -> Dec(1, 4)
                 [] OTHER -> FNeg(Dec(1, 4))])
\* the cavity after initial and bndry
FieldLid == bndry(initial_u)

\* uniform pressure, u growing with y and v growing with x, from 0 to 1
FieldShear ==
    Stored([x \in 0..(N3 - 1) |->
               CASE CellK3(x) = 0 -> pinf
                 [] CellK3(x) = 1 -> Dec(CellJ3(x), jmax - 1)
                 [] OTHER -> Dec(CellI3(x), imax - 1)])

WithCell(f, i, j, k, v) == [f EXCEPT ![Idx3(i, j, k)] = v]

InputFields ==
    {FieldAtRest, FieldStream, FieldLid, FieldShear,
     WithCell(FieldLid, iref, jref, 0, NaN),
     WithCell(FieldLid, iref, jref, 0, PInf),
     WithCell(FieldLid, iref, jref, 0, Fin(-Huge)),
     WithCell(FieldLid, iref, jref, 0, FI(1)),
     WithCell(FieldAtRest, 1, 1, 1, NaN),
     WithCell(FieldAtRest, 1, 1, 1, Fin(Huge)),
     Uniform3(NaN)}

CallCfgSet == {c \in CfgSet : c.imms \in 0..1 /\ c.isgs = 0 /\ c.irstr \in 0..1}

InitCalls ==
    \E c \in CallCfgSet :
      /\ cfg = c
      /\ \E s \in {compute_source_terms(initial_s)}, f \in InputFields,
            g \in PriorContents, old \in {"prior", "copy"} :
        \* the calls of a restart are made with uold a copy of u
        /\ c.irstr = 1 => (old = "copy" /\ g = FI(0))
        /\ src = s
        /\ pc = "call"
        /\ heap = [b \in 1..2 |->
                      IF b = 1 \/ old = "copy" THEN f ELSE Uniform3(g)]
        /\ u_data = 1
        /\ uold_data = 2
        /\ viscx = Uniform2(g)
        /\ viscy = Uniform2(g)
        /\ dt = Uniform2(Dec(1, 2))
        /\ n \in IF c.irstr = 1 THEN {1, 2} ELSE {1}
        /\ ninit = 1
        /\ rtime = IF c.irstr = 1 THEN Dec(3, 2) ELSE FI(0)
        /\ dtmin = Fin(Huge)
        /\ res = [k \in 0..(neq - 1) |-> FI(1)]
        /\ resinit = [k \in 0..(neq - 1) |-> FI(1)]
        /\ conv = FI(1)
        /\ rawres = [k \in 0..(neq - 1) |-> FI(1)]
        /\ rawinit = [k \in 0..(neq - 1) |-> FI(1)]
        /\ cavReads = {}
        /\ steps = <<>>
        /\ executed = <<>>
        /\ convlog = <<>>
        /\ history = <<>>
        /\ outputs = <<>>
        /\ restartOut = <<>>
        /\ filesOpen = TRUE
        /\ last = "none"
        /\ pre = f

\* a call is made, on the field u holds
Called(name) ==
    /\ pc = "call"
    /\ pc' = "return"
    /\ last' = name
    /\ pre' = U
    /\ UNCHANGED <<cfg, steps, executed, outputs, restartOut, filesOpen>>

\* bndry( u )
Call_bndry ==
    /\ Called("bndry")
    /\ heap' = [heap EXCEPT ![u_data] = bndry(U)]
    /\ UNCHANGED <<u_data, uold_data, src, viscx, viscy, dt, scalars, rawres,
                   rawinit, cavReads, convlog, history>>

\* bndrymms( u ), which main() selects when imms == 1
Call_bndrymms ==
    /\ Called("bndrymms")
    /\ imms = 1
    /\ heap' = [heap EXCEPT ![u_data] = bndrymms(U)]
    /\ UNCHANGED <<u_data, uold_data, src, viscx, viscy, dt, scalars, rawres,
                   rawinit, cavReads, convlog, history>>

\* the body of the loops of SGS_forward_sweep and SGS_backward_sweep, on
\* one interior cell of u
Call_SGS_cell ==
    /\ Called("SGS_cell")
    /\ \E c \in {<<1, 1>>, <<iref, jref>>} :
          heap' = [heap EXCEPT
                      ![u_data] = SGS_cell(U, c[1], c[2], viscx, viscy, dt,
                                           src)]
    /\ UNCHANGED <<u_data, uold_data, src, viscx, viscy, dt, scalars, rawres,
                   rawinit, cavReads, convlog, history>>

\* pressure_rescaling( u )
Call_pressure_rescaling ==
    /\ Called("pressure_rescaling")
    /\ heap' = [heap EXCEPT ![u_data] = pressure_rescaling(U)]
    /\ UNCHANGED <<u_data, uold_data, src, viscx, viscy, dt, scalars, rawres,
                   rawinit, cavReads, convlog, history>>

\* compute_time_step( u, dt, dtmin )
Call_compute_time_step ==
    /\ Called("compute_time_step")
    /\ dt' = compute_time_step_dt(U, dt, dtmin)
    /\ dtmin' = compute_time_step_dtmin(dt', dtmin)
    /\ UNCHANGED <<heap, u_data, uold_data, src, viscx, viscy, n, ninit, rtime,
                   res, resinit, conv, rawres, rawinit, cavReads, convlog,
                   history>>

\* PJ_iteration( set_boundary_conditions, u, uold, src, viscx, viscy, dt )
Call_PJ_iteration ==
    /\ Called("PJ_iteration")
    /\ \E g \in StackGarbage, oob \in OobGarbage :
          IterationResult(PJ_iteration(heap, u_data, uold_data, viscx, viscy,
                                       dt, src, g, oob))
    /\ UNCHANGED <<src, dt, scalars, rawres, rawinit, convlog, history>>

\* point_Jacobi( u, uold, viscx, viscy, dt, src )
Call_point_Jacobi ==
    /\ Called("point_Jacobi")
    /\ heap' = [heap EXCEPT
                    ![u_data] = point_Jacobi(U, UOLD, viscx, viscy, dt, src)]
    /\ UNCHANGED <<u_data, uold_data, src, viscx, viscy, dt, scalars, rawres,
                   rawinit, cavReads, convlog, history>>

\* Compute_Artificial_Viscosity( u, viscx, viscy )
Call_Compute_Artificial_Viscosity ==
    /\ Called("Compute_Artificial_Viscosity")
    /\ \E g \in StackGarbage, oob \in OobGarbage :
          /\ viscx' = Compute_Artificial_Viscosity_x(U, viscx, g, oob)
          /\ viscy' = Compute_Artificial_Viscosity_y(U, viscy, g, oob)
    /\ cavReads' = Compute_Artificial_Viscosity_reads
    /\ UNCHANGED <<heap, u_data, uold_data, src, dt, scalars, rawres, rawinit,
                   convlog, history>>

\* SGS_forward_sweep( u, viscx, viscy, dt, src )
Call_SGS_forward_sweep ==
    /\ Called("SGS_forward_sweep")
    /\ heap' = [heap EXCEPT
                    ![u_data] = SGS_forward_sweep(U, viscx, viscy, dt, src)]
    /\ UNCHANGED <<u_data, uold_data, src, viscx, viscy, dt, scalars, rawres,
                   rawinit, cavReads, convlog, history>>

\* SGS_backward_sweep( u, viscx, viscy, dt, src )
Call_SGS_backward_sweep ==
    /\ Called("SGS_backward_sweep")
    /\ heap' = [heap EXCEPT
                    ![u_data] = SGS_backward_sweep(U, viscx, viscy, dt, src)]
    /\ UNCHANGED <<u_data, uold_data, src, viscx, viscy, dt, scalars, rawres,
                   rawinit, cavReads, convlog, history>>

\* check_iterative_convergence(n, u, uold, dt, res, resinit, ninit, rtime,
\* dtmin, conv)
Call_check_iterative_convergence ==
    /\ Called("check_iterative_convergence")
    /\ rawres' = RmsResiduals(U, UOLD, dt)
    /\ res' = NormalizedResiduals(rawres', resinit)
    /\ conv' = ConvOf(res')
    /\ history' = IF HistoryDue(n, ninit)
                  THEN Append(history, [n |-> n, rtime |-> rtime, res |-> res'])
                  ELSE history
    /\ convlog' = Append(convlog, conv')
    /\ UNCHANGED <<fields, n, ninit, rtime, dtmin, resinit, rawinit, cavReads>>

\* write_output(n, u, dt, resinit, rtime) in one process, then in a new
\* process started with irstr == 1 on that file, copied to restart.in:
\* initial(ninit, rtime, resinit, u, src), where ninit is 0 (line 1459) and
\* rtime is not initialized (line 1463)
Call_write_output_initial ==
    /\ pc = "call"
    /\ irstr = 1
    /\ last' = "write_output_initial"
    /\ pre' = U
    /\ outputs' = write_output_log(n, pc)
    /\ restartOut' = write_output_restart(n)
    /\ \E o \in FscanfOutcomes, g \in StackGarbage :
          IF o = "crash"
          THEN /\ pc' = "crash"
               /\ UNCHANGED <<ninit, rtime, resinit, heap>>
          ELSE /\ pc' = "return"
               /\ ninit' = initial_restart_ninit(restartOut'[1], 0)
               /\ rtime' = initial_restart_rtime(restartOut'[1], g)
               /\ resinit' = initial_restart_resinit(restartOut'[1])
               /\ heap' = [heap EXCEPT
                               ![u_data] = initial_restart_u(restartOut'[1])]
    /\ UNCHANGED <<cfg, u_data, uold_data, src, viscx, viscy, dt, n, dtmin,
                   res, conv, rawres, rawinit, cavReads, steps, executed,
                   convlog, history, filesOpen>>

NextCalls ==
    \/ Call_write_output_initial
    \/ Call_bndry
    \/ Call_bndrymms
    \/ Call_SGS_cell
    \/ Call_pressure_rescaling
    \/ Call_compute_time_step
    \/ Call_PJ_iteration
    \/ Call_point_Jacobi
    \/ Call_Compute_Artificial_Viscosity
    \/ Call_SGS_forward_sweep
    \/ Call_SGS_backward_sweep
    \/ Call_check_iterative_convergence

SpecCalls == InitCalls /\ [][NextCalls]_vars

(***************************************************************************)
(* Properties.  Those about one function are stated of SpecCalls: last is   *)
(* the function that returned and pre the field u held when it was called.  *)
(* Those about main() are stated of Spec.                                   *)
(***************************************************************************)
Cells == (0..(imax - 1)) \X (0..(jmax - 1))
InteriorCells == {c \in Cells : Interior(c[1], c[2])}

\* the program positions inside the for loop, and those after it
LoopPcs ==
    {"loop_test", "time_step", "iteration_step", "gs_backward", "rescale",
     "update_time", "check", "conv_test", "periodic", "loop_incr"}
PostLoopPcs == {"notconverged", "final_write", "close", "done"}

\* the iterations ninit .. m, in order
Iterations(m) == [x \in 1..(m - ninit + 1) |-> ninit + x - 1]

IsPrefix(a, b) == Len(a) <= Len(b) /\ SubSeq(b, 1, Len(a)) = a

\* C1 (as claimed): for any input field, when pressure_rescaling(u) has
\* returned the pressure of the center cell equals the reference pressure.
C1_CenterIsReference_AnyField ==
    last = "pressure_rescaling" => At(U, iref, jref, 0) = RefPressure

\* C1 (amended): when pressure_rescaling(u) has returned, and the center
\* pressure of its input was finite and so was its distance to the reference
\* pressure, the pressure of the center cell equals the reference pressure:
\* pinf when imms = 0, the exact-solution pressure at the center when imms = 1.
C1_CenterIsReference ==
    (/\ last = "pressure_rescaling"
     /\ IsFinite(At(pre, iref, jref, 0))
     /\ IsFinite(deltap(pre)))
        => At(U, iref, jref, 0) = RefPressure

C1_Witness ==
    /\ last = "pressure_rescaling"
    /\ imms = 1
    /\ IsFinite(At(pre, iref, jref, 0))
    /\ IsFinite(deltap(pre))
    /\ At(pre, iref, jref, 0) # RefPressure
    /\ RefPressure # pinf

\* C2: when bndry(u) has returned, whatever the input field, the velocity is
\* (uinf, 0) on the whole top row, corners included, (0, 0) on the whole
\* bottom row, corners included, and (0, 0) on the left and right walls
\* between the corners.
C2_WallVelocities ==
    last = "bndry" =>
        \A c \in Cells :
            LET i == c[1]
                j == c[2]
            IN  /\ j = jmax - 1 =>
                       At(U, i, j, 1) = uinf /\ At(U, i, j, 2) = FI(0)
                /\ j = 0 => At(U, i, j, 1) = FI(0) /\ At(U, i, j, 2) = FI(0)
                /\ (i \in {0, imax - 1} /\ j \in 1..(jmax - 2)) =>
                       At(U, i, j, 1) = FI(0) /\ At(U, i, j, 2) = FI(0)

C2_Witness ==
    /\ last = "bndry"
    /\ At(pre, 0, jmax - 1, 1) # uinf
    /\ At(pre, imax - 1, 0, 1) # FI(0)
    /\ At(pre, 0, 1, 2) # FI(0)
    /\ uinf # FI(0)

\* the field is spatially uniform in pressure and in velocity
IsUniform(f) ==
    \A c \in Cells, k \in 0..(neq - 1) : At(f, c[1], c[2], k) = At(f, 0, 0, k)
ZeroSource == \A x \in 0..(N3 - 1) : src[x] = FI(0)

\* C3: when PJ_iteration has returned from a call on a steady field
\* (uniform pressure and velocity, zero source), the pressure, u and v of
\* every interior cell equal those of the old field, whatever viscx, viscy
\* and the other buffer held before.
C3_SteadyStateUnchanged ==
    (last = "PJ_iteration" /\ IsUniform(pre) /\ IsFinite(At(pre, 0, 0, 0))
        /\ IsFinite(At(pre, 0, 0, 1)) /\ IsFinite(At(pre, 0, 0, 2))
        /\ ZeroSource)
        => \A c \in InteriorCells, k \in 0..(neq - 1) :
               At(U, c[1], c[2], k) = At(pre, c[1], c[2], k)

\* C4: every pressure read u(i,j,0) of a call of
\* Compute_Artificial_Viscosity has 0 <= i < imax and 0 <= j < jmax.
C4_ReadsInDomain ==
    \A r \in cavReads :
        0 <= r[1] /\ r[1] < imax /\ 0 <= r[2] /\ r[2] < jmax

\* the place of each program position of the loop in one iteration, counted
\* from the end of the iteration
PcRank ==
    [loop_test |-> 10, time_step |-> 9, iteration_step |-> 8,
     gs_backward |-> 7, rescale |-> 6, update_time |-> 5, check |-> 4,
     conv_test |-> 3, periodic |-> 2, loop_incr |-> 1]

\* a bound on the steps the loop can still take: 0 outside the loop
LoopRank ==
    IF pc \in LoopPcs THEN (nmax + 1 - n) * 11 + PcRank[pc] ELSE 0

\* C5: the loop of main() always ends, in the converged state or in the
\* exhausted state: every step taken in the loop lowers LoopRank, which is
\* positive in the loop, and the loop is left only to one of the two states.
\* It is converged at the first iteration whose conv is below toler, and
\* exhausted after exactly the iterations ninit .. nmax when no conv was
\* below toler; after either no iteration is executed.
C5_LoopTerminates ==
    /\ [](pc \in LoopPcs => (n <= nmax + 1 /\ LoopRank > 0))
    /\ [][(pc \in LoopPcs) =>
              (/\ LoopRank' < LoopRank
               /\ pc' \in LoopPcs \cup {"converged", "exhausted"})]_vars
    /\ [](pc = "converged" =>
            /\ n <= nmax
            /\ executed = Iterations(n)
            /\ Len(convlog) = Len(executed)
            /\ ConvergedTest(convlog[Len(convlog)], toler)
            /\ \A m \in 1..(Len(convlog) - 1) :
                   ~ConvergedTest(convlog[m], toler))
    /\ [](pc = "exhausted" =>
            /\ executed = Iterations(nmax)
            /\ Len(executed) = nmax - ninit + 1
            /\ Len(convlog) = Len(executed)
            /\ \A m \in 1..Len(convlog) : ~ConvergedTest(convlog[m], toler))
    /\ [][(pc \in {"converged", "exhausted"} \cup PostLoopPcs) =>
              (executed' = executed /\ pc' \notin LoopPcs)]_vars

C5_Witness ==
    /\ pc = "converged"
    /\ Len(executed) > 1
    /\ ~ConvergedTest(convlog[1], toler)

\* the write_output calls made after the loop
FinalWrites == {m \in 1..Len(outputs) : outputs[m].at = "final_write"}

\* C6: a run that enters the loop leaves it converged or exhausted, and
\* from either makes exactly one write_output after the loop and before
\* the files are closed: there is none while the loop runs, one once the
\* files are closed, it is the last write of the run, and the files were
\* open when it was made.
C6_OneFinalWrite ==
    /\ pc \in LoopPcs \cup {"converged", "exhausted", "notconverged",
                            "final_write"} => FinalWrites = {}
    /\ pc = "exit" => executed = <<>>
    /\ pc \in {"close", "done"} =>
          /\ Cardinality(FinalWrites) = 1
          /\ Len(executed) >= 1
          /\ outputs[Len(outputs)].at = "final_write"
          /\ outputs[Len(outputs)].open
          /\ outputs[Len(outputs)].n = n
    /\ pc = "done" => ~filesOpen

C6_Witness ==
    /\ pc = "done"
    /\ n <= nmax
    /\ Cardinality(FinalWrites) = 1
    /\ Len(outputs) > 1

\* the steps of one iteration, in the order of the loop body
StepOrder ==
    <<"compute_time_step", "iterationStep", "pressure_rescaling",
      "update_time", "check_iterative_convergence">>

\* the velocity bndry leaves on the border
WallsSet(f) ==
    \A c \in Cells :
        /\ c[2] = jmax - 1 =>
               At(f, c[1], c[2], 1) = uinf /\ At(f, c[1], c[2], 2) = FI(0)
        /\ (c[2] = 0 \/ (c[1] \in {0, imax - 1} /\ c[2] < jmax - 1)) =>
               At(f, c[1], c[2], 1) = FI(0) /\ At(f, c[1], c[2], 2) = FI(0)

\* C7: in every iteration the steps are, in this order and once each:
\* compute_time_step, iterationStep (which ends with the boundary
\* conditions), pressure_rescaling, rtime += dtmin, and
\* check_iterative_convergence; write_output follows only when the run has
\* not converged and n is a multiple of iterout.
C7_StepOrder ==
    /\ pc \in LoopPcs \ {"loop_test"} =>
           IsPrefix(steps, StepOrder \o <<"write_output">>)
    /\ pc = "conv_test" => steps = StepOrder
    /\ pc = "converged" => steps = StepOrder
    /\ pc = "periodic" => steps = StepOrder /\ ~ConvergedTest(conv, toler)
    /\ pc = "loop_incr" =>
           steps = IF (n % iterout) = 0
                   THEN StepOrder \o <<"write_output">>
                   ELSE StepOrder
    /\ (pc = "rescale" /\ imms = 0) => WallsSet(U)

C7_Witness ==
    /\ pc = "loop_incr"
    /\ steps = StepOrder \o <<"write_output">>
    /\ n > ninit

\* C8: after the first iteration, the residual of equation k is the raw RMS
\* residual of the iteration divided by the raw RMS residual of equation k
\* at iteration 1, which resinit[k] holds.
C8_NormalizedByFirstIteration ==
    (pc = "conv_test" /\ n > ninit) =>
        \A k \in 0..(neq - 1) :
            /\ resinit[k] = rawinit[k]
            /\ res[k] = FDiv(rawres[k], rawinit[k])

\* C9: when check_iterative_convergence has returned a conv that passes
\* the test conv < toler of main(), each of res[0], res[1], res[2] is below
\* toler, also when some residual is NaN or infinite.
C9_ConvergedOnlyIfAllBelow ==
    (last = "check_iterative_convergence" /\ ConvergedTest(conv, toler))
        => \A k \in 0..(neq - 1) : FLt(res[k], toler)

InvalidSelector == imms \notin {0, 1} \/ isgs \notin {0, 1} \/ irstr \notin {0, 1}

\* the program positions of the startup in the order main() passes them
StartupRank ==
    [main |-> 4, select_bc |-> 3, headers |-> 2, initial |-> 1, exit |-> 0]

\* C11: a run in which imms, isgs or irstr is neither 0 nor 1 never leaves
\* the startup: it goes forward through the selector tests, the headers and
\* initial() only, towards exit(0), so no time step, relaxation pass,
\* pressure rescaling or convergence check is executed, and none has been
\* when the process has exited.
C11_InvalidSelectorAborts ==
    /\ [](InvalidSelector =>
            /\ pc \in DOMAIN StartupRank
            /\ (pc = "initial" => irstr \notin {0, 1})
            /\ executed = <<>> /\ steps = <<>> /\ convlog = <<>>
            /\ dtmin = Fin(Huge))
    /\ [][InvalidSelector =>
              (/\ pc' \in DOMAIN StartupRank
               /\ StartupRank[pc'] < StartupRank[pc])]_vars

C11_Witness ==
    /\ irstr \notin {0, 1}
    /\ pc = "exit"
    /\ filesOpen

\* C12: when write_output has written (n, rtime, resinit, u) and initial
\* has read that file back in restart mode and returned, the iteration
\* number it read is n (ninit is n, or n + 1 after the increment of line
\* 468), and rtime, resinit and every value of u are those written.
C12_CheckpointRoundTrip ==
    [][(last' = "write_output_initial" /\ pc' = "return") =>
           (/\ ninit' \in {n, n + 1}
            /\ rtime' = rtime
            /\ resinit' = resinit
            /\ U' = U)]_vars

\* the number of records of iteration m in history.dat
HistoryCount(m) == Cardinality({x \in 1..Len(history) : history[x].n = m})

\* C13: when the loop has been left, history.dat holds exactly one record
\* of every executed iteration n with n % residualOut = 0, of the first
\* iteration (n = ninit) and of the last iteration executed, and no record
\* of any other iteration.
C13_OneRecordPerLoggedIteration ==
    (pc \in {"converged", "exhausted"} \cup PostLoopPcs /\ executed # <<>>) =>
        \A m \in 0..(nmax + 1) :
            HistoryCount(m) =
                IF /\ \E x \in 1..Len(executed) : executed[x] = m
                   /\ HistoryDue(m, ninit) \/ m = executed[Len(executed)]
                THEN 1
                ELSE 0

\* C14: when compute_time_step has returned in the loop of main() with
\* every interior dt(i,j) finite, dtmin is the minimum of the interior
\* dt(i,j) of that call: no interior dt is below it and one is equal to it.
C14_DtMinIsMinOfThisCall ==
    (pc = "iteration_step"
        /\ \A c \in InteriorCells : IsFinite(At2(dt, c[1], c[2]))) =>
        /\ \A c \in InteriorCells : ~FLt(At2(dt, c[1], c[2]), dtmin)
        /\ \E c \in InteriorCells : At2(dt, c[1], c[2]) = dtmin

IsFiniteField(f) == \A x \in 0..(N3 - 1) : IsFinite(f[x])

\* what C15 says of the interior cells after a call of compute_time_step on
\* the field pre
TimeStepWellDefined ==
    \A c \in InteriorCells :
        /\ ~FLt(TimeStepBeta2(pre, c[1], c[2]), FMul(rkappa, vel2ref))
        /\ FLt(FI(0), FMul(rkappa, vel2ref))
        /\ FLt(FI(0), TimeStepLambdaMax(pre, c[1], c[2]))
        /\ IsFinite(At2(dt, c[1], c[2]))
        /\ FLt(FI(0), At2(dt, c[1], c[2]))

BorderCells == Cells \ InteriorCells

\* C16 as stated: when bndrymms(u) has returned, every border cell holds
\* umms(x, y, k) at its location for the pressure and the two velocities.
C16_BorderIsExact_AllComponents ==
    last = "bndrymms" =>
        \A c \in BorderCells, k \in 0..(neq - 1) :
            At(U, c[1], c[2], k) = umms(XAt(c[1]), YAt(c[2]), k)

\* C16: when bndrymms(u) has returned, every border cell holds
\* umms(x, y, k) at its location for the two velocities (k = 1, 2); its
\* pressure is the extrapolation 2*p1 - p2 of the pressures of the two
\* cells next to it along the inward normal (on the bottom and top rows,
\* corners included, along j; on the side walls along i); the interior
\* cells are those of the input.
C16_BorderIsExact ==
    last = "bndrymms" =>
        /\ \A c \in BorderCells, k \in 1..(neq - 1) :
               At(U, c[1], c[2], k) = umms(XAt(c[1]), YAt(c[2]), k)
        /\ \A i \in 0..(imax - 1) :
               /\ At(U, i, 0, 0) =
                      FSub(FMul(FI(2), At(U, i, 1, 0)), At(U, i, 2, 0))
               /\ At(U, i, jmax - 1, 0) =
                      FSub(FMul(FI(2), At(U, i, jmax - 2, 0)),
                           At(U, i, jmax - 3, 0))
        /\ \A j \in 1..(jmax - 2) :
               /\ At(U, 0, j, 0) =
                      FSub(FMul(FI(2), At(U, 1, j, 0)), At(U, 2, j, 0))
               /\ At(U, imax - 1, j, 0) =
                      FSub(FMul(FI(2), At(U, imax - 2, j, 0)),
                           At(U, imax - 3, j, 0))
        /\ \A c \in InteriorCells, k \in 0..(neq - 1) :
               At(U, c[1], c[2], k) = At(pre, c[1], c[2], k)

C16_Witness ==
    /\ last = "bndrymms"
    /\ IsFiniteField(pre)
    /\ At(U, 0, 0, 1) = umms(xmin, ymin, 1)
    /\ At(U, 0, 1, 0) # umms(xmin, YAt(1), 0)
    /\ At(U, 0, 1, 0) = FSub(FMul(FI(2), At(pre, 1, 1, 0)), At(pre, 2, 1, 0))

\* C17: when PJ_iteration has returned, every interior cell of u is the
\* per-cell update of the old field (now uold) with the dissipation, dt and
\* the source; and u is what the pass gives from any other contents of the
\* buffer u was written into, with the cells taken one by one with i and j
\* going up or with i and j going down.
C17_JacobiOrderIndependent ==
    last = "PJ_iteration" =>
        /\ \A c \in InteriorCells, k \in 0..(neq - 1) :
               At(U, c[1], c[2], k) =
                   PJ_cell(UOLD, c[1], c[2], k, viscx, viscy, dt, src)
        /\ \A g \in {FI(0), NaN} :
               /\ U = set_boundary_conditions(
                          PJ_UpI(Uniform3(g), UOLD, 1, viscx, viscy, dt, src))
               /\ U = set_boundary_conditions(
                          PJ_DownI(Uniform3(g), UOLD, imax - 2, viscx, viscy,
                                   dt, src))

C17_Witness ==
    /\ last = "PJ_iteration"
    /\ UOLD = FieldLid
    /\ \E c \in InteriorCells :
           /\ IsFinite(At(U, c[1], c[2], 1))
           /\ At(U, c[1], c[2], 1) # At(UOLD, c[1], c[2], 1)

\* C18: when the body of the Gauss-Seidel sweeps has been applied to one
\* interior cell of a field, the three values of that cell are those the
\* Point-Jacobi update of the cell gives from the same field (the cell's
\* own values and its four neighbours' before the update), and no other
\* cell has changed.
C18_SameCellUpdate ==
    last = "SGS_cell" =>
        \E c \in InteriorCells :
            /\ \A k \in 0..(neq - 1) :
                   At(U, c[1], c[2], k) =
                       PJ_cell(pre, c[1], c[2], k, viscx, viscy, dt, src)
            /\ \A d \in Cells \ {c}, k \in 0..(neq - 1) :
                   At(U, d[1], d[2], k) = At(pre, d[1], d[2], k)

\* C19: in every state of a run of main(), with either scheme, u and uold
\* point to two different buffers, and the two are the two buffers
\* allocated at the start.
C19_TwoDistinctBuffers ==
    /\ u_data # uold_data
    /\ {u_data, uold_data} = {1, 2}
    /\ DOMAIN heap = {1, 2}

C19_Witness ==
    /\ pc = "loop_incr"
    /\ isgs = 0
    /\ n > ninit
    /\ u_data = 1
    /\ uold_data = 2
    /\ U # UOLD

\* C20: when PJ_iteration has returned, uold is the buffer u pointed to
\* when it was entered, and it holds in every cell, the border included,
\* and for the three components, the values u held then.
C20_UoldIsPreUpdate ==
    last = "PJ_iteration" =>
        /\ UOLD = pre
        /\ uold_data = 1
        /\ u_data = 2

C20_Witness ==
    /\ last = "PJ_iteration"
    /\ pre = FieldShear
    /\ UOLD = FieldShear
    /\ U # UOLD

(***************************************************************************)
(* C21.  point_Jacobi writes only the interior cells of u: the call leaves  *)
(* every border cell of u, and the arrays uold, viscx, viscy, dt and src,   *)
(* as they were.                                                            *)
(***************************************************************************)
C21_JacobiWritesInteriorOnly ==
    [][(last' = "point_Jacobi") =>
          (/\ \A c \in BorderCells, k \in 0..(neq - 1) :
                 At(U', c[1], c[2], k) = At(U, c[1], c[2], k)
           /\ UOLD' = UOLD
           /\ viscx' = viscx
           /\ viscy' = viscy
           /\ dt' = dt
           /\ src' = src)]_vars

\* point_Jacobi has returned; it changed an interior cell, and the border of
\* u differs from the border of uold
C21_Witness ==
    /\ last = "point_Jacobi"
    /\ \E c \in InteriorCells : At(U, c[1], c[2], 1) # At(pre, c[1], c[2], 1)
    /\ \E c \in BorderCells : At(U, c[1], c[2], 1) # At(UOLD, c[1], c[2], 1)

(***************************************************************************)
(* C22.  When GS_iteration returns, uold holds the field u held on entry:   *)
(* the first half of the call (the copy, the dissipation, the forward sweep *)
(* and the boundary conditions) leaves in uold the u of its entry, and the  *)
(* second half (the dissipation, the backward sweep and the boundary        *)
(* conditions) leaves uold as it is.  Neither half reads uold after the     *)
(* copy: the u it produces is the same when uold holds something else.      *)
(***************************************************************************)
C22_UoldIsEntrySnapshot ==
    [][(isgs = 1 /\ pc \in {"iteration_step", "gs_backward"}) =>
          IF pc = "iteration_step"
          THEN /\ heap'[uold_data'] = U
               /\ \E g \in StackGarbage, oob \in OobGarbage :
                     heap'[u_data'] =
                         GS_iteration_forward(
                             [heap EXCEPT ![uold_data] = Uniform3(NaN)],
                             u_data, uold_data, viscx, viscy, dt, src, g,
                             oob).heap[u_data]
          ELSE /\ heap'[uold_data'] = UOLD
               /\ \E g \in StackGarbage, oob \in OobGarbage :
                     heap'[u_data'] =
                         GS_iteration_backward(
                             [heap EXCEPT ![uold_data] = Uniform3(NaN)],
                             u_data, uold_data, viscx, viscy, dt, src, g,
                             oob).heap[u_data]]_vars

\* GS_iteration has returned in an iteration after the first; it changed u,
\* and uold, which held the field of the iteration before, was overwritten
C22_Witness ==
    /\ isgs = 1
    /\ pc = "rescale"
    /\ n >= 2
    /\ IsFiniteField(UOLD)
    /\ UOLD # U

(***************************************************************************)
(* C23.  One Symmetric Gauss-Seidel iteration is, in this order: u copied   *)
(* to uold, the dissipation computed from u, the forward sweep, the         *)
(* boundary conditions, the dissipation computed again from the u these     *)
(* left, the backward sweep, the boundary conditions.  The backward sweep   *)
(* uses the dissipation computed after the forward sweep and its boundary   *)
(* conditions.                                                              *)
(***************************************************************************)
\* one half of the iteration on the field uin: the dissipation left in viscx
\* and viscy is (vx1, vy1), and u is the sweep of uin with that dissipation
\* followed by the boundary conditions
GaussSeidelHalf(uin, vx1, vy1, forward) ==
    /\ viscx' = vx1
    /\ viscy' = vy1
    /\ heap'[u_data'] =
           set_boundary_conditions(
               IF forward THEN SGS_forward_sweep(uin, vx1, vy1, dt, src)
               ELSE SGS_backward_sweep(uin, vx1, vy1, dt, src))

C23_GaussSeidelStepOrder ==
    [][(isgs = 1 /\ pc \in {"iteration_step", "gs_backward"}) =>
          /\ pc' = IF pc = "iteration_step" THEN "gs_backward" ELSE "rescale"
          /\ pc = "iteration_step" => heap'[uold_data'] = U
          /\ \E g \in StackGarbage, oob \in OobGarbage :
                GaussSeidelHalf(U,
                                Compute_Artificial_Viscosity_x(U, viscx, g, oob),
                                Compute_Artificial_Viscosity_y(U, viscy, g, oob),
                                pc = "iteration_step")]_vars

\* the first Symmetric Gauss-Seidel iteration has returned, it changed u and
\* it left a dissipation value that is a number at a cell it wrote
C23_Witness ==
    /\ isgs = 1
    /\ pc = "rescale"
    /\ n = 1
    /\ U # UOLD
    /\ \E c \in InteriorCells :
          /\ CavWriter(c[1], c[2]) # {}
          /\ IsFinite(At2(viscx, c[1], c[2]))

(***************************************************************************)
(* C24.  In the forward sweep every interior cell (i,j) is updated once, i  *)
(* ascending and then j ascending: its new value is the update of the cell  *)
(* computed on the field in which the cells before it in that order,        *)
(* (i-1,j) and (i,j-1) among them, already hold their new values and the    *)
(* others, (i+1,j) and (i,j+1) among them, still hold their old ones.  The  *)
(* backward sweep is the same with i and j descending.  The border cells    *)
(* are not written.                                                         *)
(***************************************************************************)
\* cell c comes before cell d in the order of the sweep
SweepBefore(c, d, forward) ==
    IF forward THEN c[1] < d[1] \/ (c[1] = d[1] /\ c[2] < d[2])
    ELSE c[1] > d[1] \/ (c[1] = d[1] /\ c[2] > d[2])

\* the field the sweep sees when it comes to cell d
SweepView(before, after, d, forward) ==
    Stored([x \in 0..(N3 - 1) |->
               IF /\ Interior(CellI3(x), CellJ3(x))
                  /\ SweepBefore(<<CellI3(x), CellJ3(x)>>, d, forward)
               THEN after[x]
               ELSE before[x]])

CellOf(f, c) == [k \in 0..(neq - 1) |-> At(f, c[1], c[2], k)]

SweepIsInOrder(before, after, forward) ==
    /\ \A c \in InteriorCells :
          CellOf(after, c) =
              CellOf(SGS_cell(SweepView(before, after, c, forward), c[1], c[2],
                              viscx, viscy, dt, src), c)
    /\ \A c \in BorderCells : CellOf(after, c) = CellOf(before, c)

C24_SweepOrder ==
    /\ last = "SGS_forward_sweep" => SweepIsInOrder(pre, U, TRUE)
    /\ last = "SGS_backward_sweep" => SweepIsInOrder(pre, U, FALSE)

\* the forward sweep has returned on a field of numbers, and a cell holds a
\* value it gets only from an already updated neighbour: the update of the
\* cell on the field as it was before the sweep gives another value
C24_Witness ==
    /\ last = "SGS_forward_sweep"
    /\ IsFiniteField(U)
    /\ \E c \in InteriorCells :
          CellOf(U, c) # CellOf(SGS_cell(pre, c[1], c[2], viscx, viscy, dt, src), c)

(***************************************************************************)
(* C25.  Every call of Compute_Artificial_Viscosity assigns viscx(i,j) and  *)
(* viscy(i,j) at every interior cell: after the call each interior cell     *)
(* holds the pair of values an assignment of that call gives it, so that a  *)
(* sweep reads no dissipation value of an earlier iteration.                *)
(***************************************************************************)
C25_DissipationAssignedEveryCall ==
    [][(last' = "Compute_Artificial_Viscosity") =>
          \A c \in InteriorCells :
              \E st \in CavWriter(c[1], c[2]), g \in StackGarbage,
                 oob \in OobGarbage :
                  /\ At2(viscx', c[1], c[2]) = SiteViscx(U, st, g, oob)
                  /\ At2(viscy', c[1], c[2]) = SiteViscy(U, st, g, oob)]_vars

(***************************************************************************)
(* C26.  At every cell with two neighbours inside the array on each side    *)
(* (2 <= i <= imax-3, 2 <= j <= jmax-3) Compute_Artificial_Viscosity leaves *)
(* viscx(i,j) = -|lambda_x|*Cx*dx^3*(d4p/dx4)/beta2, and viscy(i,j)         *)
(* likewise, with beta2 = max(u^2+v^2, rkappa*vel2ref) and lambda_x =       *)
(* (|u| + sqrt(u^2 + 4*beta2))/2 taken from the velocity of that cell; the  *)
(* term is not zero when the fourth difference of the pressure is not zero. *)
(***************************************************************************)
FourthDifference(f, i, j, di, dj) ==
    Stencil(At(f, i + 2 * di, j + 2 * dj, 0), At(f, i + di, j + dj, 0),
            At(f, i, j, 0), At(f, i - di, j - dj, 0),
            At(f, i - 2 * di, j - 2 * dj, 0))

\* (|vel| + sqrt(vel^2 + 4*beta2))/2
Eigenvalue(vel, beta2) ==
    FDiv(FAdd(FAbs(vel), FSqrt(FAdd(FMul(vel, vel), FMul(FI(4), beta2)))),
         FI(2))

\* -|lambda|*C*d^3*(diff/d^4)/beta2
DissipationTerm(diff, lambda, C, d, beta2) ==
    FDiv(FMul(FDiv(diff, FMul(FMul(FMul(d, d), d), d)),
              FMul(FMul(FNeg(FAbs(lambda)), C), FMul(FMul(d, d), d))),
         beta2)

DissipationAsStated(f, i, j) ==
    /\ At2(viscx, i, j) =
           DissipationTerm(FourthDifference(f, i, j, 1, 0),
                           Eigenvalue(At(f, i, j, 1), CellBeta2(f, i, j)),
                           Cx, dx, CellBeta2(f, i, j))
    /\ At2(viscy, i, j) =
           DissipationTerm(FourthDifference(f, i, j, 0, 1),
                           Eigenvalue(At(f, i, j, 2), CellBeta2(f, i, j)),
                           Cy, dy, CellBeta2(f, i, j))
    /\ FourthDifference(f, i, j, 1, 0) # FI(0) => At2(viscx, i, j) # FI(0)
    /\ FourthDifference(f, i, j, 0, 1) # FI(0) => At2(viscy, i, j) # FI(0)

C26_DissipationFormula ==
    last = "Compute_Artificial_Viscosity" =>
        \A i \in 2..(imax - 3), j \in 2..(jmax - 3) :
            DissipationAsStated(U, i, j)

(***************************************************************************)
(* C27.  After each call of compute_time_step, dt(i,j) is dtmin at every    *)
(* cell of the four border rows and columns and dtmin <= dt(i,j) at every   *)
(* interior cell: the dt the convergence monitor divides by is at least     *)
(* dtmin.                                                                   *)
(***************************************************************************)
\* a <= b of C++
FLe(a, b) == a.c # "nan" /\ b.c # "nan" /\ Ord(a) <= Ord(b)

\* compute_time_step has been called in this run
TimeStepComputed ==
    Len(executed) >= 2 \/ (Len(executed) = 1 /\ pc # "time_step")

C27_DtAtLeastDtMin ==
    TimeStepComputed =>
        /\ \A c \in BorderCells : At2(dt, c[1], c[2]) = dtmin
        /\ \A c \in InteriorCells : FLe(dtmin, At2(dt, c[1], c[2]))

\* the convergence monitor is about to divide by dt in the second iteration
\* or later, and the dt of some interior cell is larger than dtmin
C27_Witness ==
    /\ pc = "check"
    /\ n >= 2
    /\ \E c \in InteriorCells : FLt(dtmin, At2(dt, c[1], c[2]))
    /\ \E c \in InteriorCells : At2(dt, c[1], c[2]) = dtmin

(***************************************************************************)
(* C28.  The iteration number the final write_output stores in the restart  *)
(* file, and uses as the label of the output zone, is the number of the     *)
(* last iteration that was executed, whether the run ended converged or     *)
(* with its iterations exhausted.                                           *)
(***************************************************************************)
C28_FinalWriteIsLastIteration ==
    (pc \in {"close", "done"} /\ executed # <<>>) =>
        /\ restartOut[1].n = executed[Len(executed)]
        /\ outputs[Len(outputs)].n = executed[Len(executed)]

(***************************************************************************)
(* C29.  Across the iterations of a run dtmin never increases (it is not    *)
(* reset between the calls of compute_time_step), and the simulated time    *)
(* rtime never decreases: each iteration adds the dtmin of that iteration   *)
(* to it, so its increments never grow.                                     *)
(***************************************************************************)
C29_DtMinNonIncreasing ==
    [][/\ (pc = "time_step") => FLe(dtmin', dtmin)
       /\ (pc = "update_time") =>
              (/\ FLe(rtime, rtime')
               /\ FSub(rtime', rtime) = dtmin
               /\ FLe(FI(0), dtmin))]_vars

(***************************************************************************)
(* C30.  With the cavity walls (imms = 0), at the end of every iteration of *)
(* the driver under either scheme, that is after the boundary conditions    *)
(* that end the relaxation pass and the pressure_rescaling that follows,    *)
(* the border pressures are still the extrapolation of the interior ones:   *)
(* p(0,j) = 2p(1,j) - p(2,j) and p(imax-1,j) = 2p(imax-2,j) - p(imax-3,j)   *)
(* for 1 <= j <= jmax-2, p(i,0) = 2p(i,1) - p(i,2) and p(i,jmax-1) =        *)
(* 2p(i,jmax-2) - p(i,jmax-3) for 0 <= i <= imax-1; and the border still    *)
(* holds the wall velocities bndry gave it.                                 *)
(* The relation is the one of the numbers of the model, whose additions    *)
(* and subtractions are exact: a border pressure is the value the           *)
(* extrapolation gives, NaN where that is NaN.                              *)
(***************************************************************************)
\* 2*a - b, as bndry computes it
Extrapolated(a, b) == FSub(FMul(FI(2), a), b)

BorderPressureExtrapolated(f) ==
    /\ \A j \in 1..(jmax - 2) :
          /\ At(f, 0, j, 0) = Extrapolated(At(f, 1, j, 0), At(f, 2, j, 0))
          /\ At(f, imax - 1, j, 0) =
                 Extrapolated(At(f, imax - 2, j, 0), At(f, imax - 3, j, 0))
    /\ \A i \in 0..(imax - 1) :
          /\ At(f, i, 0, 0) = Extrapolated(At(f, i, 1, 0), At(f, i, 2, 0))
          /\ At(f, i, jmax - 1, 0) =
                 Extrapolated(At(f, i, jmax - 2, 0), At(f, i, jmax - 3, 0))

\* the positions of an iteration after pressure_rescaling
AfterRescalePcs == {"update_time", "check", "conv_test", "periodic", "loop_incr"}

====
